---- MODULE Spec2Model ----
(***************************************************************************)
(* Verification model of the statement extraction-and-categorization       *)
(* pipeline: MexicanStatementParser (app/services/mexican_parser.py),      *)
(* LLMClient (app/services/llm_client.py), TableExtractor                  *)
(* (app/services/table_extractor.py), CondusefParser and                   *)
(* PDFStatementParser (app/services/condusef_parser.py, pdf_parser.py).    *)
(*                                                                         *)
(* Strings are sequences of one-character strings, so that substring       *)
(* search, upper-casing, stripping and the regular expressions of the      *)
(* source are computed character by character.                             *)
(***************************************************************************)
EXTENDS Integers, Sequences, FiniteSets, TLC

(***************************************************************************)
(* Characters and strings                                                  *)
(***************************************************************************)
\* Python's None where a string is expected: no string of characters equals it
None == <<"None">>

\* Python's None where a date, an amount or a captured group is expected
Nothing == <<>>

UpperAlphabet ==
    << "A","B","C","D","E","F","G","H","I","J","K","L","M",
       "N","O","P","Q","R","S","T","U","V","W","X","Y","Z" >>

LowerAlphabet ==
    << "a","b","c","d","e","f","g","h","i","j","k","l","m",
       "n","o","p","q","r","s","t","u","v","w","x","y","z" >>

UpperLetters == { UpperAlphabet[i] : i \in 1..26 }

LowerLetters == { LowerAlphabet[i] : i \in 1..26 }

DigitSeq == <<"0", "1", "2", "3", "4", "5", "6", "7", "8", "9">>

Digits == { DigitSeq[i] : i \in 1..10 }

\* \s of the re module
IsSpace(c) == c = " "

\* \w of the re module (str patterns): letters, digits, underscore
IsWordChar(c) == c \in UpperLetters \cup LowerLetters \cup Digits \cup {"_"}

\* str.upper() on one character
UpperChar(c) ==
    IF c \in LowerLetters
    THEN UpperAlphabet[CHOOSE i \in 1..26 : LowerAlphabet[i] = c]
    ELSE c

\* str.upper()
Upper(s) == [i \in 1..Len(s) |-> UpperChar(s[i])]

\* str.lower() on one character
LowerChar(c) ==
    IF c \in UpperLetters
    THEN LowerAlphabet[CHOOSE i \in 1..26 : UpperAlphabet[i] = c]
    ELSE c

\* str.lower()
Lower(s) == [i \in 1..Len(s) |-> LowerChar(s[i])]

\* str.strip(): drop leading and trailing whitespace
RECURSIVE LStrip(_)
LStrip(s) == IF s # <<>> /\ IsSpace(Head(s)) THEN LStrip(Tail(s)) ELSE s

RECURSIVE RStrip(_)
RStrip(s) ==
    IF s # <<>> /\ IsSpace(s[Len(s)]) THEN RStrip(SubSeq(s, 1, Len(s) - 1)) ELSE s

Strip(s) == RStrip(LStrip(s))

\* w occurs in s starting at position i
OccursAt(w, s, i) ==
    /\ i >= 1
    /\ i + Len(w) - 1 <= Len(s)
    /\ SubSeq(s, i, i + Len(w) - 1) = w

\* the `in` operator on strings: w is a substring of s
IsSubstr(w, s) == \E i \in 1..(Len(s) + 1) : OccursAt(w, s, i)

\* \b of the re module between positions i-1 and i of s (1-based, i in 1..Len+1)
WordBoundary(s, i) ==
    LET before == i > 1 /\ IsWordChar(s[i - 1])
        after  == i <= Len(s) /\ IsWordChar(s[i])
    IN  before # after

\* concatenation of a sequence of strings
RECURSIVE Flatten(_)
Flatten(ss) == IF ss = <<>> THEN <<>> ELSE Head(ss) \o Flatten(Tail(ss))

(***************************************************************************)
(* MEXICAN_MERCHANT_RULES: the entries of the three rule tables that can   *)
(* be spelled with the letters above, in the order of the source.          *)
(***************************************************************************)
Alimentacion == <<"a","l","i","m","e","n","t","a","c","i","o","n">>

Ropa == <<"r","o","p","a">>

Otros == <<"o","t","r","o","s">>

Salud == <<"s","a","l","u","d">>

Gasolineras == <<"g","a","s","o","l","i","n","e","r","a","s">>

Transporte == <<"t","r","a","n","s","p","o","r","t","e">>

Entretenimiento == <<"e","n","t","r","e","t","e","n","i","m","i","e","n","t","o">>

Servicios == <<"s","e","r","v","i","c","i","o","s">>

Educacion == <<"e","d","u","c","a","c","i","o","n">>

\* set(MEXICAN_MERCHANT_RULES["exact_match"].values()): every category the
\* merchant table of the source maps to
ValidCategories ==
    { Alimentacion, Ropa, Otros, Salud, Gasolineras, Transporte,
      Entretenimiento, Servicios, Educacion }

\* "exact_match": merchant -> category (substring test)
ExactMatchRules ==
    << [key |-> <<"A","D","O">>, category |-> Transporte],
       [key |-> <<"M","A","X">>, category |-> Servicios] >>

\* "pattern_match": regular expression -> category.  kind "word" is
\* \b(alt|alt|...)\b ; kind "title" is \b(alt|...)\s+\w+
PatternMatchRules ==
    << [kind |-> "title", alts |-> { <<"D","R">>, <<"D","R","A">> },
        category |-> Salud],
       [kind |-> "word", alts |-> { <<"B","A","R">> },
        category |-> Entretenimiento] >>

\* "contains_match": keyword -> category (substring test)
ContainsMatchRules ==
    << [key |-> <<"M","O","D","A">>, category |-> Ropa] >>

\* re.search(pattern, s) for the two shapes of pattern_match expressions
PatternSearch(rule, s) ==
    \E w \in rule.alts : \E i \in 1..(Len(s) + 1) :
        /\ OccursAt(w, s, i)
        /\ WordBoundary(s, i)
        /\ IF rule.kind = "word"
           THEN WordBoundary(s, i + Len(w))
           ELSE \E j \in (i + Len(w) + 1)..Len(s) :
                    /\ \A k \in (i + Len(w))..(j - 1) : IsSpace(s[k])
                    /\ IsWordChar(s[j])

\* first entry of a substring table whose key is in s, or None
RECURSIVE FirstKeyMatch(_, _)
FirstKeyMatch(rules, s) ==
    IF rules = <<>> THEN None
    ELSE IF IsSubstr(Head(rules).key, s) THEN Head(rules).category
    ELSE FirstKeyMatch(Tail(rules), s)

\* first entry of the pattern table whose expression is found in s, or None
RECURSIVE FirstPatternMatch(_, _)
FirstPatternMatch(rules, s) ==
    IF rules = <<>> THEN None
    ELSE IF PatternSearch(Head(rules), s) THEN Head(rules).category
    ELSE FirstPatternMatch(Tail(rules), s)

\* a plausible slip: the regular-expression tier consulted before the
\* merchant table
CategorizePatternFirst(description) ==
    IF description = <<>> \/ Strip(description) = <<>> THEN None
    ELSE LET u == Upper(description)
             p == FirstPatternMatch(PatternMatchRules, u)
             e == FirstKeyMatch(ExactMatchRules, u)
             c == FirstKeyMatch(ContainsMatchRules, u)
         IN  IF p # None THEN p ELSE IF e # None THEN e ELSE c

\* MexicanStatementParser.categorize_mexican_transaction
CategorizeMexicanTransaction(description) ==
    IF description = <<>> \/ Strip(description) = <<>> THEN None
    ELSE LET u == Upper(description)
             e == FirstKeyMatch(ExactMatchRules, u)
             p == FirstPatternMatch(PatternMatchRules, u)
             c == FirstKeyMatch(ContainsMatchRules, u)
         IN  IF e # None THEN e ELSE IF p # None THEN p ELSE c

(***************************************************************************)
(* Dates and amounts                                                       *)
(***************************************************************************)
IsDigit(c) == c \in Digits

DigitValue(c) == CHOOSE n \in 0..9 : DigitSeq[n + 1] = c

\* int() of a string of digits ("" counts as 0)
RECURSIVE Number(_)
Number(s) ==
    IF s = <<>> THEN 0
    ELSE 10 * Number(SubSeq(s, 1, Len(s) - 1)) + DigitValue(s[Len(s)])

\* s with the characters of the set drop removed (re.sub(r"[...]", "", s))
Remove(s, drop) == SelectSeq(s, LAMBDA c : c \notin drop)

\* MEXICAN_MONTH_MAP: month abbreviation -> month number
MexicanMonthMap ==
    << <<"E","N","E">>,
       <<"F","E","B">>,
       <<"M","A","R">>,
       <<"A","B","R">>,
       <<"M","A","Y">>,
       <<"J","U","N">>,
       <<"J","U","L">>,
       <<"A","G","O">>,
       <<"S","E","P">>,
       <<"O","C","T">>,
       <<"N","O","V">>,
       <<"D","I","C">> >>

\* the month number of an abbreviation, 0 when MEXICAN_MONTH_MAP has none
MonthNumber(abbr) ==
    IF \E m \in 1..12 : MexicanMonthMap[m] = abbr
    THEN CHOOSE m \in 1..12 : MexicanMonthMap[m] = abbr
    ELSE 0

IsLeap(y) == (y % 4 = 0 /\ y % 100 # 0) \/ y % 400 = 0

DaysInMonth(y, m) ==
    IF m = 2 THEN (IF IsLeap(y) THEN 29 ELSE 28)
    ELSE IF m \in {4, 6, 9, 11} THEN 30 ELSE 31

\* datetime.strptime(f"{year}-{month}-{day}", "%Y-%m-%d"): the date, or
\* Nothing where strptime raises ValueError
Strptime(y, m, d) ==
    IF y >= 1 /\ m \in 1..12 /\ d >= 1 /\ d <= DaysInMonth(y, m)
    THEN <<y, m, d>> ELSE Nothing

\* a match of MEXICAN_PATTERNS["mexican_date"] (re.IGNORECASE) in s that starts
\* at i with a day of n digits: (\d{1,2})-(ENE|...|DIC)-(\d{4})
DateMatchAt(s, i, n) ==
    /\ i + n + 8 <= Len(s)
    /\ \A k \in i..(i + n - 1) : IsDigit(s[k])
    /\ s[i + n] = "-"
    /\ MonthNumber(Upper(SubSeq(s, i + n + 1, i + n + 3))) # 0
    /\ s[i + n + 4] = "-"
    /\ \A k \in (i + n + 5)..(i + n + 8) : IsDigit(s[k])

\* parse_mexican_date: the date built from the groups of a match that starts
\* at i with a day of n digits
DateOfMatch(s, i, n) ==
    Strptime(Number(SubSeq(s, i + n + 5, i + n + 8)),
             MonthNumber(Upper(SubSeq(s, i + n + 1, i + n + 3))),
             Number(SubSeq(s, i, i + n - 1)))

\* re.search tries the two-digit day before the one-digit day (\d{1,2} is greedy)
DateOfMatchAt(s, i) == DateOfMatch(s, i, IF DateMatchAt(s, i, 2) THEN 2 ELSE 1)

\* re.search takes the leftmost of the positions where the pattern matches
DateOfLeftmost(s, starts) ==
    IF starts = {} THEN Nothing
    ELSE DateOfMatchAt(s, CHOOSE a \in starts : \A b \in starts : a <= b)

\* MexicanStatementParser.parse_mexican_date
ParseMexicanDate(s) ==
    DateOfLeftmost(s, { i \in 1..Len(s) : DateMatchAt(s, i, 2) \/ DateMatchAt(s, i, 1) })

\* digits [. digits] in hundredths, for a body with at most one "."; dot is
\* the position of the "." (Len + 1 when there is none).  Inputs carry at most
\* two decimals.
UnsignedCents(body, dot) ==
    100 * Number(SubSeq(body, 1, dot - 1))
    + ( IF dot >= Len(body) THEN 0
        ELSE IF dot + 1 = Len(body) THEN 10 * Number(SubSeq(body, dot + 1, Len(body)))
        ELSE Number(SubSeq(body, dot + 1, dot + 2)) )

\* Decimal of sign and body, as a one-element tuple; Nothing where Decimal
\* raises InvalidOperation (a character that is no digit, two points, no digit)
DecimalOf(negative, body, dots) ==
    IF /\ \A i \in 1..Len(body) : IsDigit(body[i]) \/ body[i] = "."
       /\ Cardinality(dots) <= 1
       /\ \E i \in 1..Len(body) : IsDigit(body[i])
    THEN << (IF negative THEN 0 - 1 ELSE 1)
            * UnsignedCents(body, IF dots = {} THEN Len(body) + 1
                                  ELSE CHOOSE i \in dots : TRUE) >>
    ELSE Nothing

DecimalBody(negative, body) ==
    DecimalOf(negative, body, { i \in 1..Len(body) : body[i] = "." })

\* Decimal(s) in hundredths for s = [+-]? digits* ( . digits* )?
DecimalCents(s) ==
    IF s # <<>> /\ Head(s) \in {"+", "-"}
    THEN DecimalBody(Head(s) = "-", Tail(s))
    ELSE DecimalBody(FALSE, s)

\* str.startswith for a one-character prefix
StartsWith(s, c) == s # <<>> /\ Head(s) = c

\* parse_mexican_amount: `return -amount if is_negative else amount`, and None
\* from the except clause
SignedAmount(is_negative, amount) ==
    IF amount = Nothing THEN Nothing
    ELSE IF is_negative THEN << 0 - amount[1] >> ELSE amount

\* parse_mexican_amount: Decimal(clean_amount) if clean_amount else None
DecimalOrNothing(clean_amount) ==
    IF clean_amount # <<>> THEN DecimalCents(clean_amount) ELSE Nothing

\* parse_mexican_amount from the string without "$" and spaces on
CleanAmount(clean_amount) ==
    SignedAmount(StartsWith(clean_amount, "-") \/ StartsWith(clean_amount, "("),
                 DecimalOrNothing(Remove(Remove(clean_amount, {",", "(", ")"}), {"-"})))

\* MexicanStatementParser.parse_mexican_amount
ParseMexicanAmount(amount_str) == CleanAmount(Remove(amount_str, {"$", " "}))

(***************************************************************************)
(* MexicanStatementParser: the statement text as the parser reads it.      *)
(* A text is described by what the parser's searches find in it:           *)
(*   str       isinstance(text, str)                                       *)
(*   exact     phrases found in text as written (case-sensitive regexes)   *)
(*   upper     phrases found in text.upper()                               *)
(*   banks     how many of mexican_banks occur in text.upper()             *)
(*   credit    how many of credit_terms occur in text.upper()              *)
(*   dates     how many of mexican_date_patterns are found                 *)
(*   amounts   how many of mexican_amount_patterns are found               *)
(*   customer  what extract_customer_info finds                            *)
(*   pay, bal  group(1) of each payment / balance regex, Nothing if the    *)
(*             regex does not match                                        *)
(*   matches   what re.findall(transaction_pattern, ...) returns: tuples   *)
(*             <<operation date, charge date, description, amount>>        *)
(***************************************************************************)
PaymentSection == "TU PAGO REQUERIDO ESTE PERIODO"

TransactionSection == "DESGLOSE DE MOVIMIENTOS"

\* condusef_indicators of _validate_mexican_format
CondusefIndicators ==
    { "TU PAGO REQUERIDO", "DESGLOSE DE MOVIMIENTOS",
      "PAGO PARA NO GENERAR INTERESES", "CARGOS, ABONOS Y COMPRAS REGULARES",
      "SALDO DEUDOR TOTAL", "LIMITE DE CREDITO", "CREDITO DISPONIBLE" }

\* MexicanStatementParser._validate_mexican_format
ValidateMexicanFormat(text) ==
    LET condusef_score == Cardinality(text.upper \cap CondusefIndicators)
        has_transaction_header == "DESGLOSE DE MOVIMIENTOS" \in text.upper
    IN  \/ PaymentSection \in text.exact
        \/ condusef_score >= 2
        \/ text.banks >= 1 /\ text.credit >= 1 /\ (text.dates >= 1 \/ text.amounts >= 1)
        \/ has_transaction_header
        \/ text.banks + text.credit + text.dates + text.amounts >= 4

\* a confidence score found_fields / total_fields, kept as <<numerator, denominator>>
Ratio(n, d) == <<n, d>>

Found(v) == IF v # Nothing THEN 1 ELSE 0

\* a captured group parsed as a date / as an amount (None if no match)
GroupDate(group) == IF group # Nothing THEN ParseMexicanDate(group) ELSE Nothing

GroupAmount(group) == IF group # Nothing THEN ParseMexicanAmount(group) ELSE Nothing

\* extract_payment_info: the dict built from the parsed fields.  due_date
\* counts as found whenever its pattern matched (found_fields += 1 stands
\* outside the test of the parsed value); the others when they parsed.
PaymentInfo(period_start, period_end, cut_date, due_date, due_matched, pay_no_interest, minimum_payment) ==
    [ period_start    |-> period_start,
      period_end      |-> period_end,
      cut_date        |-> cut_date,
      due_date        |-> due_date,
      pay_no_interest |-> pay_no_interest,
      minimum_payment |-> minimum_payment,
      confidence      |->
          Ratio(Found(period_start) + Found(period_end) + Found(cut_date)
                + (IF due_matched THEN 1 ELSE 0)
                + Found(pay_no_interest) + Found(minimum_payment), 6) ]

\* MexicanStatementParser.extract_payment_info
ExtractPaymentInfo(text) ==
    PaymentInfo(GroupDate(text.pay["period_start"]),
                GroupDate(text.pay["period_end"]),
                GroupDate(text.pay["cut_date"]),
                GroupDate(text.pay["due_date"]),
                text.pay["due_date"] # Nothing,
                GroupAmount(text.pay["pay_no_interest"]),
                GroupAmount(text.pay["minimum_payment"]))

BalanceFields ==
    << "previous_balance", "total_charges", "total_payments",
       "credit_limit", "available_credit", "total_balance" >>

\* extract_balance_info: the dict built from the parsed amounts
BalanceInfo(amounts) ==
    [ previous_balance |-> amounts[1],
      total_charges    |-> amounts[2],
      total_payments   |-> amounts[3],
      credit_limit     |-> amounts[4],
      available_credit |-> amounts[5],
      total_balance    |-> amounts[6],
      confidence       |->
          Ratio(Cardinality({ i \in 1..6 : amounts[i] # Nothing }), 6) ]

\* MexicanStatementParser.extract_balance_info
ExtractBalanceInfo(text) ==
    BalanceInfo([ i \in 1..6 |-> GroupAmount(text.bal[BalanceFields[i]]) ])

\* the transaction type extract_transactions gives an amount
MexicanTransactionType(amount) == IF amount < 0 THEN "DEBIT" ELSE "CREDIT"

\* extract_transactions, one regex match: the transaction appended when both
\* dates and the amount parse, as a list of one or no element
TransactionOf(description, operation_date, charge_date, amount) ==
    IF operation_date # Nothing /\ charge_date # Nothing /\ amount # Nothing
    THEN << [ operation_date   |-> operation_date,
              charge_date      |-> charge_date,
              description      |-> Strip(description),
              amount           |-> amount[1],
              transaction_type |-> MexicanTransactionType(amount[1]),
              category         |-> None ] >>
    ELSE <<>>

\* the transactions extract_transactions builds from the regex matches, in order
RECURSIVE ParsedTransactions(_)
ParsedTransactions(matches) ==
    IF matches = <<>> THEN <<>>
    ELSE TransactionOf(Head(matches)[3],
                       ParseMexicanDate(Head(matches)[1]),
                       ParseMexicanDate(Head(matches)[2]),
                       ParseMexicanAmount(Head(matches)[4]))
         \o ParsedTransactions(Tail(matches))

\* extract_transactions: confidence = len(transactions) / len(matches)
WithConfidence(transactions, matches) ==
    << transactions,
       IF matches # <<>> THEN Ratio(Len(transactions), Len(matches)) ELSE Ratio(0, 1) >>

\* MexicanStatementParser.extract_transactions: <<transactions, confidence>>
ExtractTransactions(text) ==
    IF TransactionSection \notin text.exact THEN << <<>>, Ratio(0, 1) >>
    ELSE WithConfidence(ParsedTransactions(text.matches), text.matches)

(***************************************************************************)
(* Categorization inside parse_statement                                   *)
(***************************************************************************)
\* a plausible slip: an unmatched transaction left without the provisional
\* category
RuleCategoryNoFloor(description) == CategorizeMexicanTransaction(description)

\* parse_statement, rule-based pass: the category a transaction gets before
\* the batch call ("otros" is provisional for unmatched descriptions)
RuleCategory(description) ==
    LET cat == CategorizeMexicanTransaction(description)
    IN  IF cat # None /\ cat # <<>> THEN cat ELSE Otros

\* parse_statement, rule-based pass over all transactions
RuleCategorized(transactions) ==
    [ i \in 1..Len(transactions) |->
        [ transactions[i] EXCEPT !.category = RuleCategory(transactions[i].description) ] ]

\* parse_statement: the descriptions marked for the batch call
Uncategorized(transactions) ==
    { transactions[i].description : i \in
        { j \in 1..Len(transactions) :
            LET cat == CategorizeMexicanTransaction(transactions[j].description)
            IN  cat = None \/ cat = <<>> } }

\* the empty dict {}
EmptyMap == [ d \in {} |-> Otros ]

\* A reply of the model (the content LLMClient.invoke returns):
\*   kind "notstr"   content that is not a string (strip() raises)
\*   kind "text"     text without a brace-delimited block
\*   kind "badjson"  a brace-delimited block json.loads rejects (a trailing
\*                   comma, text between two blocks, ...); obj is what the
\*                   block spells out
\*   kind "object"   a JSON object; obj maps each key to [str, s]: whether
\*                   the value is a JSON string, and the string
\* a plausible slip: the values of the block taken over without the test
\* against valid_categories
UnvalidatedPairs(obj) ==
    [ desc \in { k \in DOMAIN obj : obj[k].str } |-> Strip(Lower(obj[desc].s)) ]

\* the pairs of a block, validated as the loop over parsed.items() does
ValidatedPairs(obj) ==
    [ desc \in { k \in DOMAIN obj : obj[k].str } |->
        IF Strip(Lower(obj[desc].s)) \in ValidCategories
        THEN Strip(Lower(obj[desc].s)) ELSE Otros ]

\* a plausible slip: the pairs of a block json.loads rejects salvaged
ParseBatchReplySalvaging(reply) ==
    IF reply.kind \in {"object", "badjson"} THEN ValidatedPairs(reply.obj) ELSE EmptyMap

\* _categorize_batch_with_llm from the reply on: the dict it returns
ParseBatchReply(reply) ==
    IF reply.kind = "object" THEN ValidatedPairs(reply.obj) ELSE EmptyMap

\* a plausible slip: RuntimeError from invoke not caught in the batch call
BatchInvokeRaisedPropagates == [ raised |-> TRUE, results |-> EmptyMap ]

\* _categorize_batch_with_llm when LLMClient.invoke raises: the except
\* clause logs and returns {}
BatchInvokeRaised == [ raised |-> FALSE, results |-> EmptyMap ]

\* parse_statement: categories taken from the batch results
ApplyBatchResults(transactions, llm_results) ==
    IF DOMAIN llm_results = {} THEN transactions
    ELSE [ i \in 1..Len(transactions) |->
             IF transactions[i].description \in DOMAIN llm_results
             THEN [ transactions[i] EXCEPT
                      !.category = llm_results[transactions[i].description] ]
             ELSE transactions[i] ]

\* 3 * a/b < 0.6 * 3, i.e. the mean of three ratios compared with 0.6
MeanOfThree(p, b, t) ==
    Ratio(p[1] * b[2] * t[2] + b[1] * p[2] * t[2] + t[1] * p[2] * b[2],
          3 * p[2] * b[2] * t[2])

\* a plausible slip: the threshold at one half
BelowOneHalf(r) == 2 * r[1] < r[2]

\* r < 0.6 for a ratio r
BelowThreshold(r) == 5 * r[1] < 3 * r[2]

\* MexicanStatementParser.validate_extraction (all four required fields are
\* always present in what parse_statement passes)
ValidateExtraction(extracted_data) ==
    LET confidence == MeanOfThree(extracted_data.payment_info.confidence,
                                  extracted_data.balance_info.confidence,
                                  extracted_data.transactions_confidence)
        n == Len(extracted_data.transactions)
    IN  [ is_valid   |-> ~BelowThreshold(confidence),
          confidence |-> confidence,
          warnings   |-> IF n = 0 THEN {"No transactions found"}
                         ELSE IF n > 1000 THEN {"Unusually high transaction count"}
                         ELSE {},
          errors     |-> IF BelowThreshold(confidence)
                         THEN {"Low confidence score"} ELSE {} ]

\* what a call hands back: a returned dict, or an exception that left it
Returned(success, error, confidence, data, validation) ==
    [ kind |-> "returned", success |-> success, error |-> error,
      confidence |-> confidence, data |-> data, validation |-> validation ]

Raised(exception) ==
    [ kind |-> "raised", success |-> FALSE, error |-> exception,
      confidence |-> Ratio(0, 1), data |-> <<>>, validation |-> <<>> ]

NoResult ==
    [ kind |-> "none", success |-> FALSE, error |-> "",
      confidence |-> Ratio(0, 1), data |-> <<>>, validation |-> <<>> ]

\* a plausible slip: the text that is not recognised is reported with the
\* score of a template that found half of its fields
NotRecognisedHalfConfidence ==
    Returned(FALSE, "Statement format not recognized as Mexican CONDUSEF standard",
             Ratio(1, 2), <<>>, <<>>)

\* parse_statement: the dict returned for a text that is not recognised
NotRecognised ==
    Returned(FALSE, "Statement format not recognized as Mexican CONDUSEF standard",
             Ratio(0, 1), <<>>, <<>>)

\* parse_statement: the dict its except clause returns
ParseError(e) == Returned(FALSE, e, Ratio(0, 1), <<>>, <<>>)

\* parse_statement: extracted_data before categorization
ExtractedFrom(text, tx) ==
    [ customer_info           |-> text.customer,
      payment_info            |-> ExtractPaymentInfo(text),
      balance_info            |-> ExtractBalanceInfo(text),
      transactions            |-> tx[1],
      transactions_confidence |-> tx[2] ]

ExtractedData(text) == ExtractedFrom(text, ExtractTransactions(text))

\* parse_statement: extracted_data after both categorization passes
Categorized(extracted, llm_results) ==
    [ extracted EXCEPT !.transactions =
        ApplyBatchResults(RuleCategorized(extracted.transactions), llm_results) ]

\* a plausible slip: data that did not pass validation is left out
ParseResultDroppingInvalid(data, validation_result) ==
    Returned(validation_result.is_valid, "", validation_result.confidence,
             IF validation_result.is_valid THEN <<data>> ELSE <<>>,
             <<validation_result>>)

\* parse_statement: the dict returned at the end of the try block
ParseResult(data, validation_result) ==
    Returned(validation_result.is_valid, "", validation_result.confidence,
             <<data>>, <<validation_result>>)

Validated(data) == ParseResult(data, ValidateExtraction(data))

\* parse_statement from the batch results on: validation and the dict returned
CompleteParse(text, llm_results) ==
    Validated(Categorized(ExtractedData(text), llm_results))

(***************************************************************************)
(* Inputs of the categorizer: descriptions built from these pieces         *)
(***************************************************************************)
MaxPieces == 4

Pieces ==
    { <<"A","D","O">>, <<"M","A","X">>, <<"B","A","R">>, <<"b","a","r">>,
      <<"D","R">>, <<"D","R","A">>, <<"M","O","D","A">>, <<"X">>, <<" ">> }

RECURSIVE PieceSeqs(_)
PieceSeqs(n) ==
    IF n = 0 THEN { <<>> }
    ELSE LET shorter == PieceSeqs(n - 1)
         IN  shorter \cup { Append(ps, p) : ps \in { q \in shorter : Len(q) = n - 1 },
                                             p \in Pieces }

Descriptions == { Flatten(ps) : ps \in PieceSeqs(MaxPieces) }

(***************************************************************************)
(* LLMClient.invoke                                                        *)
(***************************************************************************)
\* max_retries=3, the default of LLMClient.invoke
DefaultMaxRetries == 3

\* a plausible slip: one attempt too many (range(max_retries + 1))
InvokeLoopContinuesOffByOne(attempt, max_retries) == attempt <= max_retries

\* LLMClient.invoke: `for attempt in range(max_retries)` has an iteration left
InvokeLoopContinues(attempt, max_retries) == attempt < max_retries

\* LLMClient.invoke: wait_time = (attempt + 1) * 2 after the failure of attempt
WaitTime(attempt) == (attempt + 1) * 2

(***************************************************************************)
(* Inputs of parse_statement                                               *)
(***************************************************************************)
MaxMatches == 2

MaxReplyKeys == 1

DateGood == <<"1","5","-","E","N","E","-","2","0","2","3">>

DateImpossible == <<"3","1","-","F","E","B","-","2","0","2","3">>

AmountPlain == <<"$","5","5",".","8","0">>

AmountNegative == <<"-","$","1",",","2","0","0",".","0","0">>

AmountZero == <<"-","0">>

AmountCommas == <<",">>

FreeTextDue == <<"2","0"," ","d","e"," ","f","e","b">>

DescExact == <<"A","D","O">>

DescUnknown == <<"X">>

DescOther == <<"b"," ","X">>

\* candidate transaction lines: what the transaction regex captures
MatchTuples ==
    { <<DateGood, DateGood, DescExact, AmountPlain>>,
      <<DateGood, DateGood, DescUnknown, AmountNegative>>,
      <<DateGood, DateGood, DescOther, AmountZero>>,
      <<DateImpossible, DateGood, DescUnknown, AmountCommas>> }

RECURSIVE MatchSeqs(_)
MatchSeqs(n) ==
    IF n = 0 THEN { <<>> }
    ELSE LET shorter == MatchSeqs(n - 1)
         IN  shorter \cup { Append(ms, m) : ms \in { q \in shorter : Len(q) = n - 1 },
                                             m \in MatchTuples }

NoFields(names) == [ f \in names |-> Nothing ]

PaymentFieldNames ==
    { "period_start", "period_end", "cut_date", "due_date",
      "pay_no_interest", "minimum_payment" }

BalanceFieldNames == { BalanceFields[i] : i \in 1..6 }

\* a text in which nothing is found
BlankText ==
    [ str |-> TRUE, exact |-> {}, upper |-> {}, banks |-> 0, credit |-> 0,
      dates |-> 0, amounts |-> 0, customer |-> None,
      pay |-> NoFields(PaymentFieldNames), bal |-> NoFields(BalanceFieldNames),
      matches |-> <<>> ]

\* an argument that is not a string (None)
NoneText == [ BlankText EXCEPT !.str = FALSE ]

\* only the heading of the transaction section, in capitals
HeaderText ==
    [ BlankText EXCEPT !.exact = {TransactionSection},
                       !.upper = {"DESGLOSE DE MOVIMIENTOS"} ]

\* the heading of the transaction section in mixed case
MixedCaseHeaderText == [ BlankText EXCEPT !.upper = {"DESGLOSE DE MOVIMIENTOS"} ]

\* a complete statement
FullText ==
    [ str |-> TRUE,
      exact |-> {PaymentSection, TransactionSection},
      upper |-> CondusefIndicators,
      banks |-> 1, credit |-> 2, dates |-> 2, amounts |-> 2,
      customer |-> <<"B","B","V","A">>,
      pay |-> [ f \in PaymentFieldNames |->
                  IF f \in {"pay_no_interest", "minimum_payment"}
                  THEN AmountPlain ELSE DateGood ],
      bal |-> [ f \in BalanceFieldNames |-> AmountPlain ],
      matches |-> <<>> ]

\* a statement with four payment labels (the due date written out in words)
\* and three balance amounts
PartialText ==
    [ FullText EXCEPT
        !.upper = { "TU PAGO REQUERIDO", "DESGLOSE DE MOVIMIENTOS",
                    "PAGO PARA NO GENERAR INTERESES", "SALDO DEUDOR TOTAL" },
        !.credit = 1,
        !.pay = [ f \in PaymentFieldNames |->
                    CASE f = "period_start" -> DateGood
                      [] f = "period_end" -> DateGood
                      [] f = "cut_date" -> DateImpossible
                      [] f = "due_date" -> FreeTextDue
                      [] f = "pay_no_interest" -> AmountCommas
                      [] OTHER -> Nothing ],
        !.bal = [ f \in BalanceFieldNames |->
                    IF f \in {"previous_balance", "total_charges", "total_balance"}
                    THEN AmountPlain ELSE Nothing ] ]

Layouts == { BlankText, HeaderText, MixedCaseHeaderText, FullText, PartialText }

\* a transaction line brings a date (both date patterns) and an amount
WithMatches(layout, ms) ==
    IF ms = <<>> THEN layout
    ELSE [ layout EXCEPT !.matches = ms, !.dates = 2,
                         !.amounts = IF layout.amounts > 1 THEN layout.amounts ELSE 1 ]

\* a description that differs from DescUnknown in case only
DescLower == <<"x">>

\* a complete statement with two transaction lines whose descriptions no
\* rule matches and that differ in case only
CaseTwinText ==
    WithMatches(FullText, << <<DateGood, DateGood, DescUnknown, AmountNegative>>,
                             <<DateGood, DateGood, DescLower, AmountNegative>> >>)

Texts ==
    {NoneText, CaseTwinText}
    \cup { WithMatches(l, ms) :
             l \in { x \in Layouts : TransactionSection \in x.exact },
             ms \in MatchSeqs(MaxMatches) }
    \cup Layouts

\* what the model may answer
ReplyValues ==
    { [str |-> TRUE, s |-> <<" ","S","a","l","u","d">>],
      [str |-> TRUE, s |-> <<"v","i","a","j","e","s">>],
      [str |-> FALSE, s |-> <<>>] }

ReplyKeys == { DescExact, DescUnknown, DescOther }

\* the key/value pairs a brace-delimited block spells out
ReplyObjects ==
    UNION { [K -> ReplyValues] :
              K \in { S \in SUBSET ReplyKeys : Cardinality(S) <= MaxReplyKeys } }

Replies ==
    { [kind |-> k, obj |-> EmptyMap] : k \in {"notstr", "text"} }
    \cup { [kind |-> k, obj |-> o] : k \in {"badjson", "object"}, o \in ReplyObjects }

NoReply == [kind |-> "none", obj |-> EmptyMap]

(***************************************************************************)
(* CondusefParser.parse                                                    *)
(***************************************************************************)
\* What can happen inside CondusefParser.parse, in the order of the code:
\*   pages_raise     page.extract_text() raises for some page
\*   text_ok         full_text is a string, so full_text.strip() works
\*   blank           full_text.strip() is empty
\*   document_type   what classify_document_type returns
\*   n_pages         len(pdf_pages)
\*   extract_raises  a sub-extractor raises
CondusefInputs ==
    [ pages_raise : BOOLEAN, text_ok : BOOLEAN, blank : BOOLEAN,
      document_type : { "credit_card_statement_condusef", "bank_statement_other",
                        "other_document" },
      n_pages : 0..1, extract_raises : BOOLEAN ]

\* CondusefParser.parse: the dict returned (every statement of the body is
\* inside the try block; the except clause records the error)
CondusefParseResult(in) ==
    LET base == [ kind |-> "returned", document_type |-> "unknown",
                  errors |-> {}, parsed |-> FALSE ]
        critical == [ base EXCEPT !.errors = {"Critical CONDUSEF parsing error"} ]
    IN  IF in.pages_raise \/ ~in.text_ok THEN critical
        ELSE IF in.blank
        THEN [ base EXCEPT !.errors = {"No text content provided for parsing."} ]
        ELSE IF in.document_type # "credit_card_statement_condusef"
        THEN [ base EXCEPT !.document_type = in.document_type,
                           !.errors = {"Document not classified as CONDUSEF credit card statement"} ]
        ELSE IF in.extract_raises
        THEN [ critical EXCEPT !.document_type = in.document_type ]
        ELSE [ base EXCEPT !.document_type = in.document_type,
                           !.parsed = TRUE,
                           !.errors = IF in.n_pages = 0
                                      THEN {"PDF has no pages to extract primary info from."}
                                      ELSE {} ]

NoCondusefResult ==
    [ kind |-> "none", document_type |-> "unknown", errors |-> {}, parsed |-> FALSE ]

(***************************************************************************)
(* CondusefParser.extract_transaction_details and                          *)
(* _extract_transactions_from_table_text: the text is the sequence of its  *)
(* lines (full_text.split('\n'))                                           *)
(***************************************************************************)
\* self.patterns["no_interest_installments_header"]
NoInterestInstallmentsHeader ==
    << "C","O","M","P","R","A","S"," ","Y"," ","C","A","R","G","O","S"," ","D","I","F","E",
       "R","I","D","O","S"," ","A"," ","M","E","S","E","S"," ","S","I","N"," ","I","N","T",
       "E","R","E","S","E","S" >>

\* self.patterns["interest_bearing_installments_header"]
InterestBearingInstallmentsHeader ==
    << "C","O","M","P","R","A","S"," ","Y"," ","C","A","R","G","O","S"," ","D","I","F","E",
       "R","I","D","O","S"," ","A"," ","M","E","S","E","S"," ","C","O","N"," ","I","N","T",
       "E","R","E","S","E","S" >>

\* self.patterns["regular_transactions_header"]: the source of a regular
\* expression, in which the parentheses are escaped
RegularTransactionsHeader ==
    << "C","A","R","G","O","S",","," ","A","B","O","N","O","S"," ","Y"," ","C","O","M","P",
       "R","A","S"," ","R","E","G","U","L","A","R","E","S"," ","\\","(","N","O"," ","A"," ",
       "M","E","S","E","S","\\",")" >>

\* the header of the regular-transactions table as a statement prints it
RegularHeaderLine ==
    << "C","A","R","G","O","S",","," ","A","B","O","N","O","S"," ","Y"," ","C","O","M","P",
       "R","A","S"," ","R","E","G","U","L","A","R","E","S"," ","(","N","O"," ","A"," ","M",
       "E","S","E","S",")" >>

\* a transaction line whose date carries a four-digit year
FullDateLine ==
    << "1","5","-","E","N","E","-","2","0","2","3"," ","O","X","X","O"," ","M","O","N","T",
       "E","R","R","E","Y"," ","$","5","5",".","8","0" >>

\* a transaction line whose date carries no year
ShortDateLine ==
    << "1","5","-","E","N","E"," ","O","X","X","O"," ","M","O","N","T","E","R","R","E","Y",
       " ","$","5","5",".","8","0" >>

\* a transaction line with a space in the date and a signed amount
SignedAmountLine ==
    << "7"," ","A","G","O"," ","O","X","X","O"," ","-","5","5",".","8","0" >>

\* a line with neither a date nor an amount
TotalLine ==
    << "T","O","T","A","L" >>

\* the description of the transaction lines above
OxxoMonterrey ==
    << "O","X","X","O"," ","M","O","N","T","E","R","R","E","Y" >>

\* SPANISH_MONTHS_SHORT, in the order of the source: <<Spanish, English>>
SpanishMonthsShort ==
    << << <<"E","N","E">>, <<"J","A","N">> >>, << <<"F","E","B">>, <<"F","E","B">> >>,
       << <<"M","A","R">>, <<"M","A","R">> >>, << <<"A","B","R">>, <<"A","P","R">> >>,
       << <<"M","A","Y">>, <<"M","A","Y">> >>, << <<"J","U","N">>, <<"J","U","N">> >>,
       << <<"J","U","L">>, <<"J","U","L">> >>, << <<"A","G","O">>, <<"A","U","G">> >>,
       << <<"S","E","P">>, <<"S","E","P">> >>, << <<"O","C","T">>, <<"O","C","T">> >>,
       << <<"N","O","V">>, <<"N","O","V">> >>, << <<"D","I","C">>, <<"D","E","C">> >> >>

\* str.replace(old, new) for old and new of the same length
RECURSIVE Replace(_, _, _)
Replace(s, old, new) ==
    IF Len(s) < Len(old) THEN s
    ELSE IF OccursAt(old, s, 1)
    THEN new \o Replace(SubSeq(s, Len(old) + 1, Len(s)), old, new)
    ELSE <<Head(s)>> \o Replace(Tail(s), old, new)

\* _normalize_date_spanish from the k-th entry of SPANISH_MONTHS_SHORT on
RECURSIVE NormalizeFrom(_, _)
NormalizeFrom(date_str, k) ==
    IF k > Len(SpanishMonthsShort) THEN date_str
    ELSE NormalizeFrom(Replace(Upper(date_str), SpanishMonthsShort[k][1],
                               SpanishMonthsShort[k][2]), k + 1)

\* CondusefParser._normalize_date_spanish
NormalizeDateSpanish(date_str) ==
    IF date_str = <<>> THEN date_str ELSE NormalizeFrom(date_str, 1)

\* %b of strptime: the month number of an English abbreviation, 0 for none
EnglishMonthNumber(abbr) ==
    IF \E m \in 1..12 : SpanishMonthsShort[m][2] = Upper(abbr)
    THEN CHOOSE m \in 1..12 : SpanishMonthsShort[m][2] = Upper(abbr)
    ELSE 0

\* s is a day of one or two digits, sep, a month of three characters and what
\* ends s after them
DayMonthShape(s, sep, rest) ==
    LET n == Len(s) - 4 - rest
    IN  /\ n \in 1..2
        /\ \A k \in 1..n : IsDigit(s[k])
        /\ s[n + 1] = sep
        /\ EnglishMonthNumber(SubSeq(s, n + 2, n + 4)) # 0

\* datetime.strptime(s + " " + str(year), "%d" + sep + "%b %Y"), Nothing where
\* it raises ValueError
StrptimeDayMonth(s, sep, year) ==
    IF DayMonthShape(s, sep, 0)
    THEN Strptime(year, EnglishMonthNumber(SubSeq(s, Len(s) - 2, Len(s))),
                  Number(SubSeq(s, 1, Len(s) - 4)))
    ELSE Nothing

\* datetime.strptime(s, "%d" + sep + "%b" + sep + "%Y") for digits = 4 and
\* "%d" + sep + "%b" + sep + "%y" for digits = 2, Nothing where it raises.
\* %Y is the year as written; %y takes 69..99 as 1969..1999 and 0..68 as
\* 2000..2068.
StrptimeWithYear(s, sep, digits) ==
    LET written == Number(SubSeq(s, Len(s) - digits + 1, Len(s)))
        year == IF digits = 4 THEN written
                ELSE IF written >= 69 THEN 1900 + written ELSE 2000 + written
    IN
    IF /\ Len(s) > digits + 1
       /\ s[Len(s) - digits] = sep
       /\ \A k \in (Len(s) - digits + 1)..Len(s) : IsDigit(s[k])
       /\ DayMonthShape(s, sep, digits + 1)
    THEN Strptime(year,
                  EnglishMonthNumber(SubSeq(s, Len(s) - digits - 3, Len(s) - digits - 1)),
                  Number(SubSeq(s, 1, Len(s) - digits - 5)))
    ELSE Nothing

\* the first of the dates that is not Nothing (the formats are tried in order)
RECURSIVE FirstDate(_)
FirstDate(dates) ==
    IF dates = <<>> THEN Nothing
    ELSE IF Head(dates) # Nothing THEN Head(dates) ELSE FirstDate(Tail(dates))

\* CondusefParser._parse_date_with_year_context
\*   HasFourDigits      re.search(r'\d{4}', normalized_date_str)
\*   EndsWithTwoDigits  re.search(r'\d{2}$', ...) on the last piece of the string,
\*                      which is what follows its last "-" or " "
ParseDateWithYearContext(date_str, year_context) ==
    LET normalized == NormalizeDateSpanish(Upper(date_str))
        HasFourDigits(s) ==
            \E i \in 1..(Len(s) - 3) : \A k \in i..(i + 3) : IsDigit(s[k])
        EndsWithTwoDigits(s) ==
            /\ Len(s) >= 2
            /\ IsDigit(s[Len(s)]) /\ IsDigit(s[Len(s) - 1])
        contextual == FirstDate(<< StrptimeDayMonth(normalized, "-", year_context),
                                   StrptimeDayMonth(normalized, " ", year_context) >>)
    IN  IF HasFourDigits(normalized)
        THEN FirstDate(<< StrptimeWithYear(normalized, "-", 4),
                          StrptimeWithYear(normalized, " ", 4),
                          StrptimeWithYear(normalized, "/", 4) >>)
        ELSE IF EndsWithTwoDigits(normalized)
        THEN FirstDate(<< StrptimeWithYear(normalized, "-", 2),
                          StrptimeWithYear(normalized, " ", 2),
                          contextual >>)
        ELSE contextual

\* CondusefParser._parse_amount: float() of the string without "$" and ",",
\* in hundredths; None for an empty string and where float raises ValueError
CondusefParseAmount(amount_str) ==
    IF amount_str = <<>> THEN Nothing
    ELSE DecimalCents(Strip(Remove(Remove(amount_str, {"$"}), {","})))

\* ([\$\-\+]?\s*[\d,]+\.\d{2}) matches all of t
AmountFull(t) ==
    /\ Len(t) >= 4
    /\ t[Len(t) - 2] = "."
    /\ IsDigit(t[Len(t) - 1]) /\ IsDigit(t[Len(t)])
    /\ LET head == SubSeq(t, 1, Len(t) - 3)
           digits == LStrip(IF Head(head) \in {"$", "-", "+"} THEN Tail(head) ELSE head)
       IN  /\ digits # <<>>
           /\ \A k \in 1..Len(digits) : IsDigit(digits[k]) \/ digits[k] = ","

\* (\d{1,2}[\s-]\w{3}) matches at the start of s with a day of n digits
DateGroupAt(s, n) ==
    /\ Len(s) >= n + 4
    /\ \A k \in 1..n : IsDigit(s[k])
    /\ IsSpace(s[n + 1]) \/ s[n + 1] = "-"
    /\ \A k \in (n + 2)..(n + 4) : IsWordChar(s[k])

\* the ways regular_pattern matches line with a day of n digits: <<p, e, q>>
\* where the description is line[p..e] and the amount starts at q
\*   ^(\d{1,2}[\s-]\w{3})\s+(.+?)\s+([\$\-\+]?\s*[\d,]+\.\d{2})$
RegularWays(line, n) ==
    LET len == Len(line)
        starts == { p \in (n + 6)..len : \A k \in (n + 5)..(p - 1) : IsSpace(line[k]) }
        amounts == { q \in (n + 8)..len : AmountFull(SubSeq(line, q, len)) }
    IN  IF ~DateGroupAt(line, n) THEN {}
        ELSE { w \in starts \X ((n + 6)..len) \X amounts :
                 /\ w[1] <= w[2]
                 /\ w[2] + 2 <= w[3]
                 /\ \A k \in (w[2] + 1)..(w[3] - 1) : IsSpace(line[k]) }

\* regular_pattern.match(line).groups(): <<date_str, desc, amount_str>>, Nothing
\* without a match.  \d{1,2} takes two digits where it can; of the ways left
\* the matcher finds first the one with the longest first \s+, then the
\* shortest description, then the longest second \s+.
RegularMatch(line) ==
    LET FirstWay(ways) ==
            CHOOSE w \in ways : \A v \in ways :
                \/ w[1] > v[1]
                \/ w[1] = v[1] /\ w[2] < v[2]
                \/ w[1] = v[1] /\ w[2] = v[2] /\ w[3] >= v[3]
        GroupsOf(n, w) ==
            << SubSeq(line, 1, n + 4), SubSeq(line, w[1], w[2]),
               SubSeq(line, w[3], Len(line)) >>
    IN  IF RegularWays(line, 2) # {} THEN GroupsOf(2, FirstWay(RegularWays(line, 2)))
        ELSE IF RegularWays(line, 1) # {} THEN GroupsOf(1, FirstWay(RegularWays(line, 1)))
        ELSE Nothing

\* parsed_tx of the "regular" branch
RegularTx(groups, current_year) ==
    [ operation_date |-> ParseDateWithYearContext(groups[1], current_year),
      description    |-> Strip(groups[2]),
      amount         |-> CondusefParseAmount(groups[3]),
      type           |-> "regular" ]

\* datetime.now().year
NowYear == 2026

\* what one line adds to `transactions`: the "regular" branch appends
\* parsed_tx when its amount is not None; the dict of the
\* "no_interest_installments" branch has no "amount" key, and no other value
\* of transaction_type has a branch, so parsed_tx.get("amount") is None there
LineTransactions(line, transaction_type, current_year) ==
    IF line = <<>> \/ transaction_type # "regular" THEN <<>>
    ELSE IF RegularMatch(line) = Nothing THEN <<>>
    ELSE IF RegularTx(RegularMatch(line), current_year).amount = Nothing THEN <<>>
    ELSE << RegularTx(RegularMatch(line), current_year) >>

RECURSIVE TableLines(_, _, _)
TableLines(lines, transaction_type, current_year) ==
    IF lines = <<>> THEN <<>>
    ELSE LineTransactions(Strip(Head(lines)), transaction_type, current_year)
         \o TableLines(Tail(lines), transaction_type, current_year)

\* CondusefParser._extract_transactions_from_table_text
ExtractTransactionsFromTableText(lines, transaction_type, year_context) ==
    TableLines(lines, transaction_type,
               IF year_context # Nothing THEN year_context[1] ELSE NowYear)

\* the dict `transactions` before any table is read
NoTransactions ==
    [ no_interest_installments |-> <<>>, interest_bearing_installments |-> <<>>,
      regular_transactions |-> <<>> ]

\* a header was found: the buffered table is read under the type of the
\* table it belongs to, and the next table opens
OpenTable(st, table_type, year_context) ==
    [ current_table_type |-> table_type,
      table_text_buffer  |-> <<>>,
      transactions       |->
          IF st.current_table_type # "None" /\ st.table_text_buffer # <<>>
          THEN [ st.transactions EXCEPT ![st.current_table_type] =
                   @ \o ExtractTransactionsFromTableText(st.table_text_buffer,
                                                         st.current_table_type,
                                                         <<year_context>>) ]
          ELSE st.transactions,
      is_header          |-> TRUE ]

\* the if / elif on the two installment headers
InstallmentHeaders(st, line_lower, year_context) ==
    IF IsSubstr(Lower(NoInterestInstallmentsHeader), line_lower)
    THEN OpenTable(st, "no_interest_installments", year_context)
    ELSE IF IsSubstr(Lower(InterestBearingInstallmentsHeader), line_lower)
    THEN OpenTable(st, "interest_bearing_installments", year_context)
    ELSE st

\* the if on the header of the regular transactions: the pattern's source,
\* lower-cased, is looked for in the line as a substring
RegularHeader(st, line_lower, year_context) ==
    IF IsSubstr(Lower(RegularTransactionsHeader), line_lower)
    THEN OpenTable(st, "regular_transactions", year_context)
    ELSE st

\* the end of the loop body: a line that looks like a date or holds an
\* amount joins the buffer of the open table
\*   date_like    re.match(r"^\d{1,2}[\s-]\w{3}", line, re.IGNORECASE)
\*   amount_like  re.search(r"[\$\-\+]?\s*[\d,]+\.\d{2}", line)
Buffered(st, line) ==
    LET date_like == DateGroupAt(line, 2) \/ DateGroupAt(line, 1)
        amount_like ==
            \E j \in 1..(Len(line) - 3) :
                /\ IsDigit(line[j]) \/ line[j] = ","
                /\ line[j + 1] = "."
                /\ IsDigit(line[j + 2]) /\ IsDigit(line[j + 3])
    IN  IF /\ st.current_table_type # "None"
           /\ ~st.is_header
           /\ Strip(line) # <<>>
           /\ date_like \/ amount_like
        THEN [ st EXCEPT !.table_text_buffer = Append(@, line) ]
        ELSE st

\* the body of `for line in lines`
DetailsLine(st, line, year_context) ==
    Buffered(RegularHeader(InstallmentHeaders([ st EXCEPT !.is_header = FALSE ],
                                              Strip(Lower(line)), year_context),
                           Strip(Lower(line)), year_context),
             line)

RECURSIVE DetailsLoop(_, _, _)
DetailsLoop(st, lines, year_context) ==
    IF lines = <<>> THEN st
    ELSE DetailsLoop(DetailsLine(st, Head(lines), year_context), Tail(lines), year_context)

\* CondusefParser.extract_transaction_details: the dict returned.  The year
\* context is the argument, else the year of the statement period found in the
\* text, else the current year; no table is open before the first line; the
\* last buffered table is read after the loop.
ExtractTransactionDetails(lines, year_context, period_year) ==
    LET year == IF year_context # Nothing THEN year_context[1]
                ELSE IF period_year # Nothing THEN period_year[1]
                ELSE NowYear
        no_table == [ current_table_type |-> "None", table_text_buffer |-> <<>>,
                      transactions |-> NoTransactions, is_header |-> FALSE ]
    IN  OpenTable(DetailsLoop(no_table, lines, year), "None", year).transactions

\* lines a statement text is made of
CondusefLines ==
    { RegularHeaderLine, RegularTransactionsHeader, NoInterestInstallmentsHeader,
      InterestBearingInstallmentsHeader, FullDateLine, ShortDateLine, SignedAmountLine,
      TotalLine }

\* the longest text passed in, in lines
MaxCtLines == 2

CondusefTexts == UNION { [ 1..n -> CondusefLines ] : n \in 0..MaxCtLines }

\* the year of the statement the lines above come from
StatementYear == 2023

\* no call of the CondusefParser yet
NoCondusefCall ==
    [ lines |-> <<>>, transaction_type |-> "None", year_context |-> Nothing,
      period_year |-> Nothing ]

(***************************************************************************)
(* TableExtractor: the five strategies and what each hands back            *)
(***************************************************************************)
MaxTables == 2

\* TableExtractionMethod, in the order extract_tables_from_pdf tries them
Backends ==
    << "pdfplumber", "camelot_lattice", "camelot_stream", "tabula", "enhanced_ocr" >>

BackendIndex(method) == CHOOSE i \in 1..Len(Backends) : Backends[i] = method

\* table.accuracy as Camelot reports it, in percent
Accuracies == {40, 70, 100}

\* the tables a library finds on the page: each is empty or not once its
\* empty rows and columns are dropped, and carries an accuracy
RECURSIVE TableLists(_, _)
TableLists(n, accuracies) ==
    IF n = 0 THEN { <<>> }
    ELSE LET shorter == TableLists(n - 1, accuracies)
         IN  shorter \cup
             { Append(ts, [empty |-> e, accuracy |-> a]) :
                 ts \in { q \in shorter : Len(q) = n - 1 },
                 e \in BOOLEAN, a \in accuracies }

\* What a strategy does with the page:
\*   kind "raise"   it raises (the library fails, the PDF cannot be opened)
\*   kind "nopage"  page_number >= len(pdf.pages)
\*   kind "error"   pytesseract fails inside _extract_with_enhanced_ocr
\*   kind "tables"  the library returns the tables listed
Outcome(kind, tables) == [kind |-> kind, tables |-> tables]

PlainOutcomes(kinds) ==
    { Outcome(k, <<>>) : k \in kinds }
    \cup { Outcome("tables", ts) : ts \in TableLists(MaxTables, {100}) }

PdfplumberOutcomes == PlainOutcomes({"raise", "nopage"})

CamelotOutcomes ==
    { Outcome("raise", <<>>) }
    \cup { Outcome("tables", ts) : ts \in TableLists(MaxTables, Accuracies) }

TabulaOutcomes == PlainOutcomes({"raise"})

OcrOutcomes == PlainOutcomes({"raise", "nopage", "error"})

\* the tables kept: those that are not empty
KeptTables(tables) == { i \in 1..Len(tables) : ~tables[i].empty }

\* total_accuracy: the sum of table.accuracy over the first n tables, those
\* kept only
RECURSIVE TotalAccuracy(_, _)
TotalAccuracy(tables, n) ==
    IF n = 0 THEN 0
    ELSE TotalAccuracy(tables, n - 1)
         + (IF tables[n].empty THEN 0 ELSE tables[n].accuracy)

\* TableExtractionResult: tables is len(result.tables), success is bool(tables)
TableExtractionResult(method, tables, confidence, error_message) ==
    [ method |-> method, success |-> tables > 0, tables |-> tables,
      confidence |-> confidence, error_message |-> error_message ]

\* the result with a fixed confidence that three of the strategies build
FixedConfidenceResult(method, outcome, confidence) ==
    IF outcome.kind = "nopage"
    THEN TableExtractionResult(method, 0, Ratio(0, 1), "Page not found")
    ELSE IF outcome.kind = "error"
    THEN TableExtractionResult(method, 0, Ratio(0, 1), "OCR failed")
    ELSE TableExtractionResult(method, Cardinality(KeptTables(outcome.tables)),
                               IF KeptTables(outcome.tables) # {}
                               THEN confidence ELSE Ratio(0, 1), "")

\* TableExtractor._extract_with_pdfplumber: confidence = 0.8 if tables else 0.0
PdfplumberResult(outcome) == FixedConfidenceResult("pdfplumber", outcome, Ratio(8, 10))

\* TableExtractor._extract_with_camelot:
\* confidence = total_accuracy / len(camelot_tables) / 100.0
CamelotResult(method, outcome) ==
    TableExtractionResult(method, Cardinality(KeptTables(outcome.tables)),
                          IF outcome.tables # <<>>
                          THEN Ratio(TotalAccuracy(outcome.tables, Len(outcome.tables)),
                                     Len(outcome.tables) * 100)
                          ELSE Ratio(0, 1), "")

\* TableExtractor._extract_with_tabula: confidence = 0.7 if tables else 0.0
TabulaResult(outcome) == FixedConfidenceResult("tabula", outcome, Ratio(7, 10))

\* a plausible slip: text recognition trusted like a structural backend
EnhancedOcrResultTrusted(outcome) ==
    FixedConfidenceResult("enhanced_ocr", outcome, Ratio(9, 10))

\* TableExtractor._extract_with_enhanced_ocr: confidence = 0.5 if tables else 0.0
EnhancedOcrResult(outcome) == FixedConfidenceResult("enhanced_ocr", outcome, Ratio(5, 10))

\* a plausible slip: the bar for stopping early set at 0.8
HighConfidenceAbovePoint8(result) ==
    result.success /\ 10 * result.confidence[1] > 8 * result.confidence[2]

\* extract_tables_from_pdf: result.success and result.confidence > 0.7
HighConfidence(result) ==
    result.success /\ 10 * result.confidence[1] > 7 * result.confidence[2]

\* a confidence is below another
RatioLess(a, b) == a[1] * b[2] < b[1] * a[2]

\* find_transaction_tables: max(results, key=lambda x: x.confidence), the
\* index of the first result of the highest confidence (0: results is empty)
BestResult(results) ==
    IF results = <<>> THEN 0
    ELSE CHOOSE i \in 1..Len(results) :
             \A j \in 1..Len(results) :
                 /\ ~RatioLess(results[i].confidence, results[j].confidence)
                 /\ j < i => RatioLess(results[j].confidence, results[i].confidence)

(***************************************************************************)
(* PDFStatementParser                                                      *)
(***************************************************************************)
MaxLines == 1

\* keys of self.bank_patterns among the banks modelled
BankPatternKeys == {"bbva", "santander"}

\* what _detect_bank_type returns ("none": None); "banorte" is detected but
\* has no entry in self.bank_patterns nor in self.bank_transaction_patterns
BankTypes == {"none", "bbva", "santander", "banorte"}

\* str.capitalize() of the bank types without an entry in bank_patterns
Capitalized(bank_type) == IF bank_type = "banorte" THEN "Banorte" ELSE bank_type

\* bank_patterns.get(bank_type.lower(), {}).get('name', bank_type.capitalize())
BankName(bank_type) ==
    IF bank_type = "none" THEN "Unknown"
    ELSE IF bank_type = "bbva" THEN "BBVA"
    ELSE IF bank_type = "santander" THEN "Santander"
    ELSE Capitalized(bank_type)

\* len(self.bank_transaction_patterns[bank_type]), or of the generic list
PatternCount(bank_type) ==
    IF bank_type = "bbva" THEN 8 ELSE IF bank_type = "santander" THEN 1 ELSE 3

\* PDFStatementParser._parse_amount: '-' anywhere makes the amount negative,
\* '+' leaves it positive, no sign at all makes it negative
SignedFloat(is_negative, is_positive, magnitude) ==
    IF magnitude = Nothing THEN Nothing
    ELSE IF is_negative THEN << 0 - magnitude[1] >>
    ELSE IF is_positive THEN magnitude
    ELSE << 0 - magnitude[1] >>

\* PDFStatementParser._parse_amount, in hundredths (-0.0 is 0: it is not < 0)
ParseAmount(amount_str) ==
    IF amount_str = <<>> THEN Nothing
    ELSE SignedFloat(\E i \in 1..Len(amount_str) : amount_str[i] = "-",
                     \E i \in 1..Len(amount_str) : amount_str[i] = "+",
                     DecimalCents(Remove(amount_str, {"$", ",", " ", "+", "-"})))

\* dateutil.parser.parse(dd/mm/yyyy, dayfirst=True): day first when the
\* second number can be a month, month first otherwise; None where the
\* date does not exist
DayFirst(a, b, y) == IF b <= 12 THEN Strptime(y, b, a) ELSE Strptime(y, a, b)

\* PDFStatementParser._parse_date for dd/mm/yyyy
ParseDate(date_str) ==
    IF Len(date_str) # 10 THEN Nothing
    ELSE DayFirst(Number(SubSeq(date_str, 1, 2)), Number(SubSeq(date_str, 4, 5)),
                  Number(SubSeq(date_str, 7, 10)))

\* A line of the transaction section:
\*   kind "plus"     -2023 ABONO + $amount
\*   kind "payment"  -2023 BMOVIL.PAGO TDC X - $amount
\*   kind "charge"   -2023 OXXO $amount
\*   kind "dated"    date OXXO [sign]$amount
PdfLine(kind, date, sign, amount) ==
    [kind |-> kind, date |-> date, sign |-> sign, amount |-> amount]

PdfAmounts == { <<"0",".","0","0">>, <<"1",",","2","0","0",".","5","0">> }

PdfDateGood == <<"1","5","/","0","1","/","2","0","2","3">>

PdfDateBad == <<"0","0","/","0","0","/","0","0","0","0">>

PdfLines ==
    { PdfLine(k, <<>>, <<>>, a) : k \in {"plus", "payment", "charge"}, a \in PdfAmounts }
    \cup { PdfLine("dated", PdfDateGood, sg, a) :
             sg \in { <<>>, <<"+">>, <<"-">> }, a \in PdfAmounts }
    \cup { PdfLine("dated", PdfDateBad, <<>>, <<"0",".","0","0">>) }

RECURSIVE PdfLineSeqs(_)
PdfLineSeqs(n) ==
    IF n = 0 THEN { <<>> }
    ELSE LET shorter == PdfLineSeqs(n - 1)
         IN  shorter \cup { Append(ls, l) : ls \in { q \in shorter : Len(q) = n - 1 },
                                             l \in PdfLines }

\* re.finditer(patterns[pattern_idx], transaction_section) finds the line
\* with at least three groups (the last pattern of the BBVA and of the
\* generic list has two groups, and its matches are passed over)
LineMatches(bank_type, pattern_idx, line) ==
    IF bank_type = "bbva"
    THEN \/ pattern_idx = 4 /\ line.kind = "plus"
         \/ pattern_idx = 5 /\ line.kind = "payment"
         \/ pattern_idx = 6 /\ line.kind \in {"plus", "payment", "charge"}
    ELSE pattern_idx = 0 /\ line.kind = "dated"

\* match.group('description') for the three BBVA patterns
BbvaDescription(pattern_idx, line) ==
    IF line.kind = "plus" THEN <<"A","B","O","N","O">>
    ELSE IF line.kind = "payment"
    THEN <<"B","M","O","V","I","L",".","P","A","G","O"," ","T","D","C"," ","X">>
    ELSE <<"O","X","X","O"," ">>

\* match.group('sign') of the pattern with index 6 (<<>>: the group is None)
BbvaSign(line) ==
    IF line.kind = "plus" THEN <<"+">>
    ELSE IF line.kind = "payment" THEN <<"-">> ELSE <<>>

\* _extract_standardized_transactions, BBVA patterns 4 to 6: does the match
\* count as a credit
BbvaIsCredit(pattern_idx, line, plus_in_section) ==
    \/ pattern_idx = 4
    \/ pattern_idx = 6 /\ ( BbvaSign(line) = <<"+">>
                            \/ (BbvaSign(line) = <<>> /\ plus_in_section) )

\* a transaction dict, as a list of one element, or no transaction when the
\* date or the amount did not parse
PdfTransaction(date, description, amount, type) ==
    IF date = Nothing \/ amount = Nothing THEN <<>>
    ELSE << [ date |-> date,
              description |-> IF Strip(description) = <<>>
                              THEN <<"U","n","k","n","o","w","n">>
                              ELSE Strip(description),
              amount |-> amount[1],
              type |-> type ] >>

\* the generic branch: 'debit' if amount < 0 else 'credit'
TypeOfAmount(date, description, amount) ==
    PdfTransaction(date, description, amount,
                   IF amount # Nothing /\ amount[1] < 0 THEN "debit" ELSE "credit")

\* _extract_standardized_transactions: the transaction built from one match
MatchTransaction(bank_type, pattern_idx, line, plus_in_section, now_month) ==
    IF bank_type = "bbva" /\ pattern_idx \in {4, 5, 6}
    THEN IF BbvaIsCredit(pattern_idx, line, plus_in_section)
         THEN PdfTransaction(<<2023, now_month, 15>>, BbvaDescription(pattern_idx, line),
                             ParseAmount(<<"+", "$">> \o line.amount), "credit")
         ELSE PdfTransaction(<<2023, now_month, 15>>, BbvaDescription(pattern_idx, line),
                             ParseAmount(<<"-", "$">> \o line.amount), "debit")
    ELSE TypeOfAmount(ParseDate(line.date), <<"O","X","X","O">>,
                      ParseAmount(line.sign \o <<"$">> \o line.amount))

\* the transactions of the matches of one pattern among the first n lines
RECURSIVE PatternTransactions(_, _, _, _, _, _)
PatternTransactions(bank_type, pattern_idx, lines, n, plus_in_section, now_month) ==
    IF n = 0 THEN <<>>
    ELSE PatternTransactions(bank_type, pattern_idx, lines, n - 1,
                             plus_in_section, now_month)
         \o ( IF LineMatches(bank_type, pattern_idx, lines[n])
              THEN MatchTransaction(bank_type, pattern_idx, lines[n],
                                    plus_in_section, now_month)
              ELSE <<>> )

\* the transactions of the patterns with index below n, pattern after pattern
RECURSIVE TransactionsUpTo(_, _, _, _, _)
TransactionsUpTo(bank_type, n, lines, plus_in_section, now_month) ==
    IF n = 0 THEN <<>>
    ELSE TransactionsUpTo(bank_type, n - 1, lines, plus_in_section, now_month)
         \o PatternTransactions(bank_type, n - 1, lines, Len(lines),
                                plus_in_section, now_month)

\* '+' in match.string: a plus sign somewhere in the transaction section
PlusInSection(lines) ==
    \E i \in 1..Len(lines) : lines[i].kind = "plus" \/ lines[i].sign = <<"+">>

\* PDFStatementParser._extract_standardized_transactions
ExtractStandardizedTransactions(doc) ==
    IF doc.n_pages = 0 \/ ~doc.section THEN <<>>
    ELSE TransactionsUpTo(doc.bank_type, PatternCount(doc.bank_type), doc.lines,
                          PlusInSection(doc.lines), doc.now_month)

\* the dict parse_pdf returns, or the exception that leaves it; the
\* confidence is kept in thousandths
PdfResult(kind, bank_name, parsing_method, parsing_confidence, transactions) ==
    [ kind |-> kind, bank_name |-> bank_name, parsing_method |-> parsing_method,
      parsing_confidence |-> parsing_confidence, transactions |-> transactions ]

PdfRaised(exception) == PdfResult("raised", "", exception, 0, <<>>)

NoPdfResult == PdfResult("none", "", "", 0, <<>>)

\* _parse_universal_statement: 0.2 for each of holder, number and period,
\* and 0.2 + min(0.2, len(transactions) / 50 * 0.2) when there are transactions
UniversalConfidence(found, n) ==
    200 * Cardinality(found)
    + (IF n > 0 THEN 200 + (IF 4 * n < 200 THEN 4 * n ELSE 200) ELSE 0)

\* PDFStatementParser._parse_universal_statement (it catches what its
\* extractors raise)
ParseUniversalStatement(doc, transactions) ==
    PdfResult("returned", BankName(doc.bank_type), "universal_standardized",
              UniversalConfidence(doc.found, Len(transactions)), transactions)

\* PDFStatementParser._parse_bank_statement: 'parsing_confidence': 0.9
ParseBankStatement(doc) ==
    PdfResult("returned", BankName(doc.bank_type),
              IF doc.bank_type = "bbva" THEN "bbva_specific" ELSE "santander_specific",
              900, ExtractStandardizedTransactions(doc))

\* PDFStatementParser._parse_generic_statement: it calls
\* self._extract_generic_account_holder, a method the class does not define
ParseGenericStatement == PdfRaised("AttributeError")

\* parse_pdf: the bank-specific result is used if it has higher confidence
HigherConfidence(candidate, result) ==
    IF candidate.parsing_confidence > result.parsing_confidence
    THEN candidate ELSE result

\* a plausible slip: the fallback parser tried whatever the universal
\* parser found
FallBackAlways(doc, result) ==
    IF doc.bank_type \in BankPatternKeys
    THEN HigherConfidence(ParseBankStatement(doc), result)
    ELSE ParseGenericStatement

\* parse_pdf from the universal result on
FallBack(doc, result) ==
    IF result.parsing_confidence < 500 \/ result.transactions = <<>>
    THEN IF doc.bank_type \in BankPatternKeys
         THEN HigherConfidence(ParseBankStatement(doc), result)
         ELSE ParseGenericStatement
    ELSE result

\* PDFStatementParser.parse_pdf: what pdfplumber.open raises is logged and
\* raised again
ParsePdfResult(doc) ==
    IF ~doc.readable THEN PdfRaised("PDFSyntaxError")
    ELSE FallBack(doc, ParseUniversalStatement(doc, ExtractStandardizedTransactions(doc)))

\* A PDF file as parse_pdf reads it:
\*   readable   pdfplumber.open(file_path) succeeds
\*   n_pages    len(pdf.pages)
\*   bank_type  what _detect_bank_type finds in the text or in the file name
\*   found      which of holder, number and period the BBVA patterns find
\*   section    a transaction section header is found
\*   lines      the lines of the transaction section
\*   now_month  datetime.now().month
PdfDoc(readable, n_pages, bank_type, found, section, lines, now_month) ==
    [ readable |-> readable, n_pages |-> n_pages, bank_type |-> bank_type,
      found |-> found, section |-> section, lines |-> lines, now_month |-> now_month ]

\* a file that is no PDF
UnreadablePdf == PdfDoc(FALSE, 0, "none", {}, FALSE, <<>>, 1)

\* a PDF without pages: no text, the bank at most known from the file name
EmptyPdfs == { PdfDoc(TRUE, 0, b, {}, FALSE, <<>>, 1) : b \in BankTypes }

PdfDocs ==
    {UnreadablePdf} \cup EmptyPdfs
    \cup { PdfDoc(TRUE, 1, b, f, ls # <<>>, ls, m) :
             b \in BankTypes, f \in SUBSET {"holder", "number", "period"},
             ls \in PdfLineSeqs(MaxLines), m \in {1, 12} }

(***************************************************************************)
(* self.statement_period of the one PDFStatementParser instance            *)
(***************************************************************************)
\* _extract_standardized_statement_period: always a tuple of two, the dates
\* or None
PeriodResult(doc) ==
    IF "period" \in doc.found THEN << <<2022, 6, 1>>, <<2022, 6, 30>> >>
    ELSE << None, None >>

\* a plausible slip: the test asks whether both dates were found
PeriodIsPairOfDates(period_result) ==
    period_result[1] # None /\ period_result[2] # None

\* period_result and isinstance(period_result, tuple) and len(period_result) == 2
PeriodIsPair(period_result) ==
    period_result # <<>> /\ Len(period_result) = 2

\* a date is not after another
DateLeq(d, e) ==
    \/ d[1] < e[1]
    \/ d[1] = e[1] /\ d[2] < e[2]
    \/ d[1] = e[1] /\ d[2] = e[2] /\ d[3] <= e[3]

\* the dates of the text that _parse_date accepts
ParsedDates(doc) ==
    { ParseDate(doc.lines[i].date) :
        i \in { j \in 1..Len(doc.lines) : doc.lines[j].kind = "dated" } } \ {Nothing}

\* _extract_statement_period_fallback: the first and the last of the dates
\* found in the text, or (None, None)
FallbackPeriod(dates) ==
    IF dates = {} THEN << None, None >>
    ELSE << CHOOSE d \in dates : \A e \in dates : DateLeq(d, e),
            CHOOSE d \in dates : \A e \in dates : DateLeq(e, d) >>

\* self.statement_period after _parse_universal_statement has taken the
\* period of doc (Nothing: the attribute is not set); it is assigned only
\* next to the fallback
StoredPeriod(stored, doc) ==
    IF ~doc.readable \/ PeriodIsPair(PeriodResult(doc)) THEN stored
    ELSE FallbackPeriod(ParsedDates(doc))

\* _extract_standardized_transactions: statement_month is the month of
\* self.statement_period[0] if the attribute is there and set, and
\* datetime.now().month otherwise
StatementMonth(stored, now_month) ==
    IF stored # Nothing /\ stored[1] # None THEN stored[1][2] ELSE now_month

\* doc as the transaction patterns read it on an instance with this period
WithStatementMonth(doc, stored) ==
    [ doc EXCEPT !.now_month = StatementMonth(stored, doc.now_month) ]

\* the places at which a call of parse_pdf on the shared instance can be
PdfSlots == {"first", "second"}

\* documents handed to the shared instance one after the other or together
SessionPdfDocs ==
    { PdfDoc(TRUE, 1, b, f, TRUE, <<l>>, m) :
        b \in {"bbva", "none"}, f \in { {}, {"period"} },
        l \in { PdfLine("payment", <<>>, <<>>, <<"1",",","2","0","0",".","5","0">>),
                PdfLine("dated", PdfDateGood, <<"-">>, <<"1",",","2","0","0",".","5","0">>) },
        m \in {1, 12} }
    \cup {UnreadablePdf}

NoPdfCall == [pc |-> "idle", doc |-> UnreadablePdf, result |-> NoPdfResult]

(***************************************************************************)
(* One parser instance over a session: llm_cache, llm_processed and the    *)
(* lru_cache of categorize_mexican_transaction                             *)
(***************************************************************************)
MaxParses == 2

\* the threads that call into the one instance (mexican_parser)
Threads == {"a", "b"}

\* _categorize_with_llm: cache_key = description.strip().upper()
CacheKey(description) == Upper(Strip(description))

DescLowerPadded == <<" ", "x">>

\* descriptions passed to _categorize_with_llm: two of them share a key
SessionDescriptions == { DescUnknown, DescLowerPadded, DescOther }

SessionKeys == { CacheKey(d) : d \in SessionDescriptions }

\* statements of one transaction line each: one a rule matches, one none does
SessionTexts ==
    { WithMatches(FullText, <<m>>) :
        m \in { <<DateGood, DateGood, DescExact, AmountPlain>>,
                <<DateGood, DateGood, DescUnknown, AmountNegative>> } }

\* what llm_client.invoke does for the batch prompt: it raises, or returns
\* the content given
SessionReplies ==
    { [kind |-> "raise", obj |-> EmptyMap],
      [kind |-> "text", obj |-> EmptyMap],
      [kind |-> "object",
       obj |-> [ d \in {DescUnknown, DescOther} |->
                   [str |-> TRUE, s |-> <<" ","S","a","l","u","d">>] ]] }

\* what llm_client.invoke does for the prompt of one description: it raises,
\* returns content that is no string, or returns the text s
SingleReplies ==
    { [kind |-> "raise", s |-> <<>>],
      [kind |-> "notstr", s |-> <<>>],
      [kind |-> "text", s |-> <<" ","S","a","l","u","d">>],
      [kind |-> "text", s |-> <<"o","t","r","o","s">>],
      [kind |-> "text", s |-> <<"R","o","p","a"," ">>] }

\* the prompts: the batch prompt lists the descriptions, the single prompt
\* names one
BatchPrompt(descriptions) == [kind |-> "batch", descriptions |-> descriptions]

SinglePrompt(description) == [kind |-> "single", descriptions |-> {description}]

\* _categorize_with_llm: category = response_text.strip().lower()
SingleCategory(reply) == Lower(Strip(reply.s))

\* a plausible slip: a hit of the memo answered with None
LruCategorizeHitNone(memo, description) ==
    IF description \in DOMAIN memo THEN None
    ELSE CategorizeMexicanTransaction(description)

\* @lru_cache(maxsize=1000) on categorize_mexican_transaction: a description
\* seen before is answered from the memo
LruCategorize(memo, description) ==
    IF description \in DOMAIN memo THEN memo[description]
    ELSE CategorizeMexicanTransaction(description)

\* the memo after the descriptions were looked up
LruAfter(memo, descriptions) ==
    [ d \in DOMAIN memo \cup descriptions |-> LruCategorize(memo, d) ]

\* parse_statement, rule-based pass, on an instance whose memo is given
SessionRuleCategorized(memo, transactions) ==
    [ i \in 1..Len(transactions) |->
        [ transactions[i] EXCEPT !.category =
            IF LruCategorize(memo, transactions[i].description) \notin {None, <<>>}
            THEN LruCategorize(memo, transactions[i].description) ELSE Otros ] ]

\* parse_statement: the descriptions marked for the batch call
SessionUncategorized(memo, transactions) ==
    { transactions[i].description : i \in
        { j \in 1..Len(transactions) :
            LruCategorize(memo, transactions[j].description) \in {None, <<>>} } }

\* _categorize_batch_with_llm: the dict it returns for what invoke did
BatchResults(outcome) ==
    IF outcome.kind = "raise" THEN BatchInvokeRaised.results
    ELSE ParseBatchReply(outcome)

\* parse_statement: extracted_data after both categorization passes, on an
\* instance whose memo is given
SessionCategorized(memo, extracted, llm_results) ==
    [ extracted EXCEPT !.transactions =
        ApplyBatchResults(SessionRuleCategorized(memo, extracted.transactions),
                          llm_results) ]

\* parse_statement on an instance whose memo is given, for what the batch
\* call returned
SessionParse(memo, text, llm_results) ==
    IF ~ValidateMexicanFormat(text) THEN NotRecognised
    ELSE Validated(SessionCategorized(memo, ExtractedData(text), llm_results))

\* the descriptions parse_statement hands to the batch call
SessionBatch(memo, text) ==
    IF ~ValidateMexicanFormat(text) THEN {}
    ELSE SessionUncategorized(memo, ExtractedData(text).transactions)

VARIABLES
    cz_desc,        \* categorizer: the description passed in
    cz_done,        \* categorizer: the call has returned
    cz_cat,         \* categorizer: the value returned
    llm_available,  \* LLMClient.llm is not None
    ps_pc,          \* the call followed: "idle", "invoking" (inside LLMClient.invoke), "done"
    ps_text,        \* parse_statement: the text passed in
    ps_fault,       \* parse_statement: what raised inside its try block
    ps_batched,     \* parse_statement: descriptions handed to the batch call
    ps_llm_results, \* parse_statement: what the batch call returned
    ps_result,      \* parse_statement: what the caller gets
    inv_caller,     \* LLMClient.invoke: "none", "batch" or "direct"
    inv_max,        \* LLMClient.invoke: max_retries
    inv_attempt,    \* LLMClient.invoke: failed attempts so far
    inv_calls,      \* LLMClient.invoke: calls of self.llm.invoke so far
    inv_waits,      \* LLMClient.invoke: the waits slept, in order
    inv_outcome,    \* LLMClient.invoke: "none", "returned" or "raised"
    inv_content,    \* LLMClient.invoke: the content returned
    cp_result,      \* CondusefParser.parse: what the caller gets
    camelot_available, \* CAMELOT_AVAILABLE
    tabula_available,  \* TABULA_AVAILABLE
    te_pc,          \* extract_tables_from_pdf: "idle", the strategy tried next, "done"
    te_attempted,   \* extract_tables_from_pdf: the strategies called, in order
    te_results,     \* extract_tables_from_pdf: the list results
    pdf_pc,         \* parse_pdf: "idle" or "done"
    pdf_doc,        \* parse_pdf: the file passed in
    pdf_result,     \* parse_pdf: what the caller gets
    pdf_statement_period, \* self.statement_period of the parser (Nothing: not set)
    pdf_calls,      \* by slot, a call of parse_pdf on the shared parser
    ss_stubbed,       \* the model is a stub: the same prompt gets the same answer
    ss_answers,       \* what the stub has answered, by prompt
    ss_llm_cache,     \* self.llm_cache
    ss_llm_processed, \* self.llm_processed
    ss_lru,           \* the memo of categorize_mexican_transaction
    ss_invocations,   \* calls of llm_client.invoke, by key of the description asked about
    ss_parses,        \* the parse_statement calls so far: text and result
    th,               \* by thread, its call of _categorize_with_llm
    ct_pc,          \* CondusefParser: "idle" or "done"
    ct_call,        \* CondusefParser: "none", "details" or "table_text"
    ct_input,       \* CondusefParser: the arguments of the call
    ct_details,     \* extract_transaction_details: the dict returned
    ct_table,       \* _extract_transactions_from_table_text: the list returned
    st_status,      \* the statement's processing_status as committed to the database
    st_requests,    \* the responses of the process_statement calls so far
    st_tasks        \* the background tasks queued so far, in order

czVars == <<cz_desc, cz_done, cz_cat>>

psVars == <<ps_pc, ps_text, ps_fault, ps_batched, ps_llm_results, ps_result>>

invVars == <<inv_caller, inv_max, inv_attempt, inv_calls, inv_waits, inv_outcome,
             inv_content>>

teVars == <<camelot_available, tabula_available, te_pc, te_attempted, te_results>>

pdfVars == <<pdf_pc, pdf_doc, pdf_result, pdf_statement_period, pdf_calls>>

ssVars == <<ss_stubbed, ss_answers, ss_llm_cache, ss_llm_processed, ss_lru,
           ss_invocations, ss_parses, th>>

ctVars == <<ct_pc, ct_call, ct_input, ct_details, ct_table>>

stVars == <<st_status, st_requests, st_tasks>>

vars == <<czVars, llm_available, psVars, invVars, cp_result, teVars, pdfVars, ssVars,
          ctVars, stVars>>

\* no call of _categorize_with_llm under way
ThreadIdle == [pc |-> "idle", description |-> <<>>, category |-> None]

SsIdle ==
    /\ ss_stubbed = FALSE
    /\ ss_answers = << >>
    /\ ss_llm_cache = << >>
    /\ ss_llm_processed = {}
    /\ ss_lru = << >>
    /\ ss_invocations = [ k \in SessionKeys |-> 0 ]
    /\ ss_parses = <<>>
    /\ th = [ t \in Threads |-> ThreadIdle ]

CzIdle ==
    /\ cz_desc = <<>>
    /\ cz_done = FALSE
    /\ cz_cat = None

PsIdle ==
    /\ ps_pc = "idle"
    /\ ps_text = BlankText
    /\ ps_fault = "none"
    /\ ps_batched = {}
    /\ ps_llm_results = EmptyMap
    /\ ps_result = NoResult
    /\ inv_caller = "none"
    /\ inv_max = DefaultMaxRetries
    /\ inv_attempt = 0
    /\ inv_calls = 0
    /\ inv_waits = <<>>
    /\ inv_outcome = "none"
    /\ inv_content = NoReply
    /\ cp_result = NoCondusefResult

TeIdle ==
    /\ camelot_available = TRUE
    /\ tabula_available = TRUE
    /\ te_pc = "idle"
    /\ te_attempted = <<>>
    /\ te_results = <<>>

CtIdle ==
    /\ ct_pc = "idle"
    /\ ct_call = "none"
    /\ ct_input = NoCondusefCall
    /\ ct_details = NoTransactions
    /\ ct_table = <<>>

StIdle ==
    /\ st_status = "uploaded"
    /\ st_requests = <<>>
    /\ st_tasks = <<>>

PdfIdle ==
    /\ pdf_pc = "idle"
    /\ pdf_doc = UnreadablePdf
    /\ pdf_result = NoPdfResult
    /\ pdf_statement_period = Nothing
    /\ pdf_calls = [ s \in PdfSlots |-> NoPdfCall ]

(***************************************************************************)
(* The categorizer alone                                                   *)
(***************************************************************************)
CzInit ==
    /\ SsIdle
    /\ cz_desc \in Descriptions
    /\ cz_done = FALSE
    /\ cz_cat = None
    /\ llm_available = FALSE
    /\ PsIdle
    /\ CtIdle
    /\ StIdle
    /\ TeIdle
    /\ PdfIdle

\* one call of categorize_mexican_transaction(description)
Categorize ==
    /\ ~cz_done
    /\ cz_cat' = CategorizeMexicanTransaction(cz_desc)
    /\ cz_done' = TRUE
    /\ UNCHANGED <<cz_desc, llm_available, ctVars, stVars, psVars, invVars, cp_result, teVars, pdfVars,
                   ssVars>>

CzNext == Categorize

SpecCategorize == CzInit /\ [][CzNext]_vars

(***************************************************************************)
(* parse_statement, the batch call and LLMClient.invoke                    *)
(***************************************************************************)
\* LLMClient.__init__ leaves llm set or None
PsInit ==
    /\ SsIdle
    /\ CzIdle
    /\ llm_available \in BOOLEAN
    /\ PsIdle
    /\ CtIdle
    /\ StIdle
    /\ TeIdle
    /\ PdfIdle

\* parse_statement returns (or raises) without the model being called
FinishParse(result, batched) ==
    /\ ps_pc' = "done"
    /\ ps_result' = result
    /\ ps_batched' = batched
    /\ ps_llm_results' = EmptyMap
    /\ UNCHANGED invVars

\* parse_statement inside the try block, up to the model call, if there is
\* one: uncategorized are the descriptions no rule matched
ParseBody(text, uncategorized) ==
    IF uncategorized = {} \/ ~llm_available
    THEN \* there is no batch call, or _categorize_batch_with_llm returns {} at once
         FinishParse(CompleteParse(text, EmptyMap), uncategorized)
    ELSE /\ ps_pc' = "invoking"
         /\ ps_batched' = uncategorized
         /\ inv_caller' = "batch"
         /\ inv_max' = DefaultMaxRetries
         /\ UNCHANGED <<ps_llm_results, ps_result, inv_attempt, inv_calls,
                        inv_waits, inv_outcome, inv_content>>

\* parse_statement(text) up to the model call, if there is one.  fault names
\* what raises inside the try block ("none": nothing does).
ParseStatement(text, fault) ==
    /\ ps_pc = "idle"
    /\ ps_text' = text
    /\ ps_fault' = fault
    /\ IF ~text.str
       THEN \* re.search in _validate_mexican_format raises TypeError, and the
            \* call stands before the try block
            FinishParse(Raised("TypeError"), {})
       ELSE IF ~ValidateMexicanFormat(text)
       THEN FinishParse(NotRecognised, {})
       ELSE IF fault # "none"
       THEN FinishParse(ParseError(fault), {})
       ELSE ParseBody(text, Uncategorized(ExtractedData(text).transactions))
    /\ UNCHANGED <<czVars, ssVars, llm_available, ctVars, stVars, cp_result, teVars, pdfVars>>

\* a caller other than the parser calls llm_client.invoke(messages, max_retries)
InvokeDirect(max_retries) ==
    /\ ps_pc = "idle"
    /\ inv_caller' = "direct"
    /\ inv_max' = max_retries
    /\ IF ~llm_available \/ ~InvokeLoopContinues(0, max_retries)
       THEN /\ inv_outcome' = "raised"
            /\ ps_pc' = "done"
       ELSE /\ inv_outcome' = "none"
            /\ ps_pc' = "invoking"
    /\ UNCHANGED <<czVars, ssVars, llm_available, ctVars, stVars, ps_text, ps_fault, ps_batched,
                   ps_llm_results, ps_result, inv_attempt, inv_calls, inv_waits,
                   inv_content, cp_result, teVars, pdfVars>>

\* self.llm.invoke(messages) returns: invoke returns its content, and the
\* batch call and parse_statement run to their end
ModelCallReturns(reply) ==
    /\ ps_pc = "invoking"
    /\ inv_calls' = inv_calls + 1
    /\ inv_outcome' = "returned"
    /\ inv_content' = reply
    /\ ps_pc' = "done"
    /\ IF inv_caller = "batch"
       THEN /\ ps_llm_results' = ParseBatchReply(reply)
            /\ ps_result' = CompleteParse(ps_text, ParseBatchReply(reply))
       ELSE UNCHANGED <<ps_llm_results, ps_result>>
    /\ UNCHANGED <<czVars, ssVars, llm_available, ctVars, stVars, ps_text, ps_fault, ps_batched, inv_caller,
                   inv_max, inv_attempt, inv_waits, cp_result, teVars, pdfVars>>

\* self.llm.invoke(messages) raises: invoke sleeps and tries again, or, after
\* the last attempt, raises RuntimeError to its caller
ModelCallRaises ==
    /\ ps_pc = "invoking"
    /\ inv_calls' = inv_calls + 1
    /\ inv_attempt' = inv_attempt + 1
    /\ inv_waits' = Append(inv_waits, WaitTime(inv_attempt))
    /\ IF InvokeLoopContinues(inv_attempt + 1, inv_max)
       THEN UNCHANGED <<ps_pc, inv_outcome, ps_llm_results, ps_result>>
       ELSE /\ inv_outcome' = "raised"
            /\ ps_pc' = "done"
            /\ IF inv_caller = "batch"
               THEN /\ ps_llm_results' = BatchInvokeRaised.results
                    /\ ps_result' =
                         IF BatchInvokeRaised.raised
                         THEN ParseError("RuntimeError")
                         ELSE CompleteParse(ps_text, BatchInvokeRaised.results)
               ELSE UNCHANGED <<ps_llm_results, ps_result>>
    /\ UNCHANGED <<czVars, ssVars, llm_available, ctVars, stVars, ps_text, ps_fault, ps_batched, inv_caller,
                   inv_max, inv_content, cp_result, teVars, pdfVars>>

\* CondusefParser.parse(full_text, pdf_pages, file_path)
CondusefParse(in) ==
    /\ ps_pc = "idle"
    /\ ps_pc' = "done"
    /\ cp_result' = CondusefParseResult(in)
    /\ UNCHANGED <<czVars, ssVars, llm_available, ctVars, stVars, ps_text, ps_fault, ps_batched,
                   ps_llm_results, ps_result, invVars, teVars, pdfVars>>

PsNext ==
    \/ \E text \in Texts, fault \in {"none", "extractor", "categorizer"} :
           ParseStatement(text, fault)
    \/ \E max_retries \in 0..DefaultMaxRetries : InvokeDirect(max_retries)
    \/ \E reply \in Replies : ModelCallReturns(reply)
    \/ ModelCallRaises
    \/ \E in \in CondusefInputs : CondusefParse(in)

SpecParse == PsInit /\ [][PsNext]_vars

(***************************************************************************)
(* TableExtractor.extract_tables_from_pdf, strategy by strategy            *)
(***************************************************************************)
\* the flags are set when the module is imported
TeInit ==
    /\ SsIdle
    /\ CzIdle
    /\ llm_available = FALSE
    /\ PsIdle
    /\ CtIdle
    /\ StIdle
    /\ PdfIdle
    /\ camelot_available \in BOOLEAN
    /\ tabula_available \in BOOLEAN
    /\ te_pc = "idle"
    /\ te_attempted = <<>>
    /\ te_results = <<>>

TeUnchanged == UNCHANGED <<czVars, ssVars, llm_available, ctVars, stVars, psVars, invVars, cp_result,
                           camelot_available, tabula_available, pdfVars>>

\* the strategy tried after method: the Camelot and Tabula blocks are
\* skipped when the library is missing
NextStrategy(method) ==
    IF method = "pdfplumber" /\ camelot_available THEN "camelot_lattice"
    ELSE IF method = "camelot_lattice" THEN "camelot_stream"
    ELSE IF method \in {"pdfplumber", "camelot_stream"} /\ tabula_available THEN "tabula"
    ELSE IF method = "enhanced_ocr" THEN "done"
    ELSE "enhanced_ocr"

\* extract_tables_from_pdf(pdf_content, page_number) is called: results = []
ExtractTablesFromPdf ==
    /\ te_pc = "idle"
    /\ te_pc' = "pdfplumber"
    /\ UNCHANGED <<te_attempted, te_results>>
    /\ TeUnchanged

\* one try block of extract_tables_from_pdf: the strategy is called; what it
\* returns is appended, and returned at once if it is a success with high
\* confidence; what it raises is logged
TryStrategy(method, outcome, result) ==
    /\ te_pc = method
    /\ te_attempted' = Append(te_attempted, method)
    /\ IF outcome.kind = "raise"
       THEN /\ te_results' = te_results
            /\ te_pc' = NextStrategy(method)
       ELSE /\ te_results' = Append(te_results, result)
            /\ te_pc' = IF method # "enhanced_ocr" /\ HighConfidence(result)
                        THEN "done" ELSE NextStrategy(method)
    /\ TeUnchanged

\* Strategy 1: pdfplumber
ExtractWithPdfplumber(outcome) ==
    /\ te_pc = "pdfplumber"
    /\ TryStrategy("pdfplumber", outcome, PdfplumberResult(outcome))

\* Strategies 2 and 3: Camelot (lattice), Camelot (stream), if CAMELOT_AVAILABLE
ExtractWithCamelot(flavor, outcome) ==
    /\ camelot_available
    /\ te_pc = flavor
    /\ TryStrategy(flavor, outcome, CamelotResult(flavor, outcome))

\* Strategy 4: Tabula, if TABULA_AVAILABLE
ExtractWithTabula(outcome) ==
    /\ tabula_available
    /\ te_pc = "tabula"
    /\ TryStrategy("tabula", outcome, TabulaResult(outcome))

\* Strategy 5: Enhanced OCR (last resort); results is returned after it
ExtractWithEnhancedOcr(outcome) ==
    /\ te_pc = "enhanced_ocr"
    /\ TryStrategy("enhanced_ocr", outcome, EnhancedOcrResult(outcome))

TeNext ==
    \/ ExtractTablesFromPdf
    \/ \E outcome \in PdfplumberOutcomes : ExtractWithPdfplumber(outcome)
    \/ \E flavor \in {"camelot_lattice", "camelot_stream"}, outcome \in CamelotOutcomes :
           ExtractWithCamelot(flavor, outcome)
    \/ \E outcome \in TabulaOutcomes : ExtractWithTabula(outcome)
    \/ \E outcome \in OcrOutcomes : ExtractWithEnhancedOcr(outcome)

SpecTable == TeInit /\ [][TeNext]_vars

(***************************************************************************)
(* PDFStatementParser.parse_pdf                                            *)
(***************************************************************************)
PdfInit ==
    /\ SsIdle
    /\ CzIdle
    /\ llm_available = FALSE
    /\ PsIdle
    /\ CtIdle
    /\ StIdle
    /\ TeIdle
    /\ PdfIdle

\* parse_pdf(file_path)
ParsePdf(doc) ==
    /\ pdf_pc = "idle"
    /\ pdf_pc' = "done"
    /\ pdf_doc' = doc
    /\ pdf_statement_period' = StoredPeriod(pdf_statement_period, doc)
    /\ pdf_result' =
         ParsePdfResult(WithStatementMonth(doc, StoredPeriod(pdf_statement_period, doc)))
    /\ UNCHANGED <<czVars, ssVars, llm_available, ctVars, stVars, psVars, invVars, cp_result, teVars,
                   pdf_calls>>

PdfNext == \E doc \in PdfDocs : ParsePdf(doc)

SpecPdf == PdfInit /\ [][PdfNext]_vars

(***************************************************************************)
(* parse_pdf calls on the one shared PDFStatementParser                    *)
(***************************************************************************)
PdfSessionUnchanged ==
    UNCHANGED <<czVars, ssVars, llm_available, ctVars, stVars, psVars, invVars, cp_result, teVars,
                pdf_pc, pdf_doc, pdf_result>>

\* parse_pdf(file_path) is called in a slot: the file is opened and its text
\* read; what pdfplumber.open raises is raised again
ParsePdfBegins(slot, doc) ==
    /\ pdf_calls[slot].pc \in {"idle", "done"}
    /\ pdf_calls' = [ pdf_calls EXCEPT ![slot] =
                        IF doc.readable
                        THEN [pc |-> "period", doc |-> doc, result |-> NoPdfResult]
                        ELSE [pc |-> "done", doc |-> doc, result |-> ParsePdfResult(doc)] ]
    /\ UNCHANGED pdf_statement_period
    /\ PdfSessionUnchanged

\* _parse_universal_statement up to the statement period
ExtractsPeriod(slot) ==
    /\ pdf_calls[slot].pc = "period"
    /\ pdf_statement_period' = StoredPeriod(pdf_statement_period, pdf_calls[slot].doc)
    /\ pdf_calls' = [ pdf_calls EXCEPT ![slot].pc = "transactions" ]
    /\ PdfSessionUnchanged

\* the rest of parse_pdf: the transactions, the fallback parsers, the return
ExtractsTransactions(slot) ==
    /\ pdf_calls[slot].pc = "transactions"
    /\ pdf_calls' = [ pdf_calls EXCEPT
                        ![slot].pc = "done",
                        ![slot].result =
                            ParsePdfResult(WithStatementMonth(pdf_calls[slot].doc,
                                                              pdf_statement_period)) ]
    /\ UNCHANGED pdf_statement_period
    /\ PdfSessionUnchanged

PdfSessionNext ==
    \E slot \in PdfSlots :
        \/ \E doc \in SessionPdfDocs : ParsePdfBegins(slot, doc)
        \/ ExtractsPeriod(slot)
        \/ ExtractsTransactions(slot)

SpecPdfSession == PdfInit /\ [][PdfSessionNext]_vars

(***************************************************************************)
(* One parser instance: parse_statement and _categorize_with_llm calls     *)
(***************************************************************************)
\* a stub answers a prompt it has seen as it did before
StubAllows(prompt, outcome) ==
    IF ss_stubbed /\ prompt \in DOMAIN ss_answers
    THEN ss_answers[prompt] = outcome ELSE TRUE

\* what the stub has answered, after this answer
Answered(prompt, outcome) ==
    IF ss_stubbed
    THEN [ q \in DOMAIN ss_answers \cup {prompt} |->
             IF q = prompt THEN outcome ELSE ss_answers[q] ]
    ELSE ss_answers

\* llm_client.invoke was called with a prompt about these keys
Invoked(keys) ==
    [ k \in SessionKeys |-> IF k \in keys THEN ss_invocations[k] + 1
                            ELSE ss_invocations[k] ]

SsInit ==
    /\ CzIdle
    /\ PsIdle
    /\ CtIdle
    /\ StIdle
    /\ TeIdle
    /\ PdfIdle
    /\ llm_available \in BOOLEAN
    /\ ss_stubbed \in BOOLEAN
    /\ ss_answers = << >>
    /\ ss_llm_cache = << >>
    /\ ss_llm_processed = {}
    /\ ss_lru = << >>
    /\ ss_invocations = [ k \in SessionKeys |-> 0 ]
    /\ ss_parses = <<>>
    /\ th = [ t \in Threads |-> ThreadIdle ]

SsOthersUnchanged ==
    UNCHANGED <<czVars, llm_available, ctVars, stVars, psVars, invVars, cp_result, teVars, pdfVars,
                ss_stubbed>>

\* a whole call of parse_statement(text); batch are the descriptions no rule
\* matched, outcome is what llm_client.invoke does if the batch call is made
SessionParseStatement(text, outcome, batch) ==
    /\ Len(ss_parses) < MaxParses
    /\ \A t \in Threads : th[t].pc \in {"idle", "done"}
    /\ IF batch # {} /\ llm_available
       THEN /\ StubAllows(BatchPrompt(batch), outcome)
            /\ ss_answers' = Answered(BatchPrompt(batch), outcome)
            /\ ss_invocations' = Invoked({ CacheKey(d) : d \in batch })
            /\ ss_parses' = Append(ss_parses,
                   [ text |-> text,
                     result |-> SessionParse(ss_lru, text, BatchResults(outcome)) ])
       ELSE /\ outcome.kind = "raise"
            /\ UNCHANGED <<ss_answers, ss_invocations>>
            /\ ss_parses' = Append(ss_parses,
                   [ text |-> text, result |-> SessionParse(ss_lru, text, EmptyMap) ])
    /\ ss_lru' = LruAfter(ss_lru,
                     IF ValidateMexicanFormat(text)
                     THEN { text.matches[i][3] : i \in 1..Len(text.matches) }
                     ELSE {})
    /\ UNCHANGED <<ss_llm_cache, ss_llm_processed, th>>
    /\ SsOthersUnchanged

\* thread t has returned category from _categorize_with_llm
ThreadReturns(t, category) ==
    th' = [ th EXCEPT ![t].pc = "done", ![t].category = category ]

\* a plausible slip: _categorize_with_llm without the is_available test
CategorizeWithLlmUntested(t, description) ==
    /\ th[t].pc \in {"idle", "done"}
    /\ th' = [ th EXCEPT ![t] =
                 [pc |-> "cache", description |-> description, category |-> None] ]
    /\ UNCHANGED <<ss_answers, ss_llm_cache, ss_llm_processed, ss_lru,
                   ss_invocations, ss_parses>>
    /\ SsOthersUnchanged

\* _categorize_with_llm(description) is called on thread t; it returns
\* "otros" at once if the client is not available
CategorizeWithLlm(t, description) ==
    /\ th[t].pc \in {"idle", "done"}
    /\ th' = [ th EXCEPT ![t] =
                 IF llm_available
                 THEN [pc |-> "cache", description |-> description, category |-> None]
                 ELSE [pc |-> "done", description |-> description, category |-> Otros] ]
    /\ UNCHANGED <<ss_answers, ss_llm_cache, ss_llm_processed, ss_lru,
                   ss_invocations, ss_parses>>
    /\ SsOthersUnchanged

\* if cache_key in self.llm_cache: return self.llm_cache[cache_key]
CheckCache(t) ==
    /\ th[t].pc = "cache"
    /\ IF CacheKey(th[t].description) \in DOMAIN ss_llm_cache
       THEN ThreadReturns(t, ss_llm_cache[CacheKey(th[t].description)])
       ELSE th' = [ th EXCEPT ![t].pc = "processed" ]
    /\ UNCHANGED <<ss_answers, ss_llm_cache, ss_llm_processed, ss_lru,
                   ss_invocations, ss_parses>>
    /\ SsOthersUnchanged

\* a plausible slip: llm_processed is filled and never consulted
CheckProcessedIgnored(t) ==
    /\ th[t].pc = "processed"
    /\ th' = [ th EXCEPT ![t].pc = "invoke" ]
    /\ UNCHANGED <<ss_answers, ss_llm_cache, ss_llm_processed, ss_lru,
                   ss_invocations, ss_parses>>
    /\ SsOthersUnchanged

\* if cache_key in self.llm_processed: return "otros"
CheckProcessed(t) ==
    /\ th[t].pc = "processed"
    /\ IF CacheKey(th[t].description) \in ss_llm_processed
       THEN ThreadReturns(t, Otros)
       ELSE th' = [ th EXCEPT ![t].pc = "invoke" ]
    /\ UNCHANGED <<ss_answers, ss_llm_cache, ss_llm_processed, ss_lru,
                   ss_invocations, ss_parses>>
    /\ SsOthersUnchanged

\* llm_client.invoke returns a text: self.llm_cache[cache_key] = category
InvokeReturnsText(t, reply) ==
    /\ th[t].pc = "invoke"
    /\ reply.kind = "text"
    /\ StubAllows(SinglePrompt(th[t].description), reply)
    /\ ss_answers' = Answered(SinglePrompt(th[t].description), reply)
    /\ ss_invocations' = Invoked({CacheKey(th[t].description)})
    /\ ss_llm_cache' =
         [ k \in DOMAIN ss_llm_cache \cup {CacheKey(th[t].description)} |->
             IF k = CacheKey(th[t].description) THEN SingleCategory(reply)
             ELSE ss_llm_cache[k] ]
    /\ th' = [ th EXCEPT ![t].pc = "mark", ![t].category = SingleCategory(reply) ]
    /\ UNCHANGED <<ss_llm_processed, ss_lru, ss_parses>>
    /\ SsOthersUnchanged

\* self.llm_processed.add(cache_key); return category
MarkProcessed(t) ==
    /\ th[t].pc = "mark"
    /\ ss_llm_processed' = ss_llm_processed \cup {CacheKey(th[t].description)}
    /\ th' = [ th EXCEPT ![t].pc = "done" ]
    /\ UNCHANGED <<ss_answers, ss_llm_cache, ss_lru, ss_invocations, ss_parses>>
    /\ SsOthersUnchanged

\* llm_client.invoke raises, or returns what has no strip(): the except
\* clause adds the key to llm_processed and returns "otros"
InvokeFails(t, reply) ==
    /\ th[t].pc = "invoke"
    /\ reply.kind \in {"raise", "notstr"}
    /\ StubAllows(SinglePrompt(th[t].description), reply)
    /\ ss_answers' = Answered(SinglePrompt(th[t].description), reply)
    /\ ss_invocations' = Invoked({CacheKey(th[t].description)})
    /\ ss_llm_processed' = ss_llm_processed \cup {CacheKey(th[t].description)}
    /\ ThreadReturns(t, Otros)
    /\ UNCHANGED <<ss_llm_cache, ss_lru, ss_parses>>
    /\ SsOthersUnchanged

\* the steps of _categorize_with_llm on thread t
CategorizeWithLlmStep(t) ==
    \/ \E description \in SessionDescriptions : CategorizeWithLlm(t, description)
    \/ CheckCache(t)
    \/ CheckProcessed(t)
    \/ \E reply \in SingleReplies : InvokeReturnsText(t, reply)
    \/ MarkProcessed(t)
    \/ \E reply \in SingleReplies : InvokeFails(t, reply)

\* calls one after the other on one instance
SsNext ==
    \/ \E text \in SessionTexts, outcome \in SessionReplies :
           SessionParseStatement(text, outcome, SessionBatch(ss_lru, text))
    \/ CategorizeWithLlmStep("a")

SpecSession == SsInit /\ [][SsNext]_vars

\* calls of _categorize_with_llm on two threads, the model live
ThInit ==
    /\ SsInit
    /\ llm_available
    /\ ~ss_stubbed

ThNext == \E t \in Threads : CategorizeWithLlmStep(t)

SpecThreads == ThInit /\ [][ThNext]_vars

(***************************************************************************)
(* CondusefParser: extract_transaction_details and                         *)
(* _extract_transactions_from_table_text                                   *)
(***************************************************************************)
CtInit ==
    /\ SsIdle
    /\ CzIdle
    /\ llm_available = FALSE
    /\ PsIdle
    /\ CtIdle
    /\ StIdle
    /\ TeIdle
    /\ PdfIdle

CtUnchanged ==
    UNCHANGED <<czVars, ssVars, llm_available, stVars, psVars, invVars, cp_result, teVars,
                pdfVars>>

\* extract_transaction_details(full_text, pages, year_context); period_year is
\* the year of the end of the statement period found in full_text, if any
CallExtractTransactionDetails(lines, year_context, period_year) ==
    /\ ct_pc = "idle"
    /\ ct_pc' = "done"
    /\ ct_call' = "details"
    /\ ct_input' = [ lines |-> lines, transaction_type |-> "None",
                     year_context |-> year_context, period_year |-> period_year ]
    /\ ct_details' = ExtractTransactionDetails(lines, year_context, period_year)
    /\ UNCHANGED ct_table
    /\ CtUnchanged

\* _extract_transactions_from_table_text(table_text, transaction_type, year_context)
CallExtractTransactionsFromTableText(lines, transaction_type, year_context) ==
    /\ ct_pc = "idle"
    /\ ct_pc' = "done"
    /\ ct_call' = "table_text"
    /\ ct_input' = [ lines |-> lines, transaction_type |-> transaction_type,
                     year_context |-> year_context, period_year |-> Nothing ]
    /\ ct_table' = ExtractTransactionsFromTableText(lines, transaction_type, year_context)
    /\ UNCHANGED ct_details
    /\ CtUnchanged

CtNext ==
    \/ \E lines \in CondusefTexts, year_context \in {Nothing, <<StatementYear>>},
          period_year \in {Nothing, <<StatementYear - 1>>} :
           CallExtractTransactionDetails(lines, year_context, period_year)
    \/ \E lines \in CondusefTexts,
          transaction_type \in {"regular", "regular_transactions", "no_interest_installments"},
          year_context \in {Nothing, <<StatementYear>>} :
           CallExtractTransactionsFromTableText(lines, transaction_type, year_context)

SpecCondusefTx == CtInit /\ [][CtNext]_vars

(***************************************************************************)
(* The statements endpoint: process_statement and the background task it   *)
(* queues, for one uploaded statement.  process_statement is a coroutine   *)
(* without an await, so the event loop runs each call from its first line  *)
(* to its return; a background task is a coroutine of its own and other    *)
(* calls run between its steps.  st_status is what a new database session  *)
(* reads: a write is seen once it is committed.                            *)
(***************************************************************************)
\* the calls of process_statement followed
MaxRequests == 3

\* a test that lets a statement under processing through
AlreadyProcessed(processing_status) == processing_status = "processed"

\* process_statement: processing_status in ["processing", "processed"]
AlreadyHandled(processing_status) == processing_status \in {"processing", "processed"}

\* a task as background_tasks.add_task leaves it
\*   pc            "queued", "parsing", "categorizing", "persisting", "except", "ended"
\*   transactions  parse_pdf found transactions
\*   raised        a step inside the try block raised
QueuedTask == [ pc |-> "queued", transactions |-> FALSE, raised |-> FALSE ]

StInit ==
    /\ SsIdle
    /\ CzIdle
    /\ llm_available = FALSE
    /\ PsIdle
    /\ CtIdle
    /\ StIdle
    /\ TeIdle
    /\ PdfIdle

StUnchanged ==
    UNCHANGED <<czVars, ssVars, llm_available, ctVars, psVars, invVars, cp_result, teVars,
                pdfVars>>

\* process_statement(statement_id, background_tasks, db); outcome says whether
\* statement_crud.get or db.commit() raises.  The response is recorded.
ProcessStatement(outcome) ==
    /\ Len(st_requests) < MaxRequests
    /\ IF outcome = "get_raises"
       THEN /\ st_requests' = Append(st_requests, "error")
            /\ UNCHANGED <<st_status, st_tasks>>
       ELSE IF AlreadyHandled(st_status)
       THEN /\ st_requests' = Append(st_requests, "already " \o st_status)
            /\ UNCHANGED <<st_status, st_tasks>>
       ELSE IF outcome = "commit_raises"
       THEN /\ st_requests' = Append(st_requests, "error")
            /\ UNCHANGED <<st_status, st_tasks>>
       ELSE /\ st_status' = "processing"
            /\ st_tasks' = Append(st_tasks, QueuedTask)
            /\ st_requests' = Append(st_requests, "processing")
    /\ StUnchanged

\* task t moves to pc; raised records a step that raised
TaskMoves(t, pc, raised) ==
    st_tasks' = [ st_tasks EXCEPT ![t].pc = pc, ![t].raised = @ \/ raised ]

\* process_statement_background: db = SessionLocal() and statement_crud.get.
\* When get raises, db_statement is not bound yet and the except clause, which
\* reads it, raises in turn; finally closes the session.
BackgroundGet(t, outcome) ==
    /\ st_tasks[t].pc = "queued"
    /\ IF outcome = "raises"
       THEN TaskMoves(t, "ended", TRUE)
       ELSE TaskMoves(t, "parsing", FALSE)
    /\ UNCHANGED <<st_status, st_requests>>
    /\ StUnchanged

\* process_statement_background: pdf_parser.parse_pdf and the fields copied
\* from its result; outcome says whether transactions were found
BackgroundParse(t, outcome) ==
    /\ st_tasks[t].pc = "parsing"
    /\ IF outcome = "raises" THEN TaskMoves(t, "except", TRUE)
       ELSE IF outcome = "transactions"
       THEN st_tasks' = [ st_tasks EXCEPT ![t].pc = "categorizing", ![t].transactions = TRUE ]
       ELSE TaskMoves(t, "persisting", FALSE)
    /\ UNCHANGED <<st_status, st_requests>>
    /\ StUnchanged

\* process_statement_background: await categorizer.categorize_transactions and
\* the Transaction rows added to the session
BackgroundCategorize(t, outcome) ==
    /\ st_tasks[t].pc = "categorizing"
    /\ IF outcome = "raises" THEN TaskMoves(t, "except", TRUE)
       ELSE TaskMoves(t, "persisting", FALSE)
    /\ UNCHANGED <<st_status, st_requests>>
    /\ StUnchanged

\* process_statement_background: processing_status = "processed" and
\* db.commit(), the last statements of the try block
BackgroundCommit(t, outcome) ==
    /\ st_tasks[t].pc = "persisting"
    /\ IF outcome = "raises"
       THEN /\ TaskMoves(t, "except", TRUE)
            /\ UNCHANGED st_status
       ELSE /\ TaskMoves(t, "ended", FALSE)
            /\ st_status' = "processed"
    /\ UNCHANGED st_requests
    /\ StUnchanged

\* process_statement_background: the except clause sets processing_status to
\* "failed" and commits; an exception of this commit leaves the task with
\* nothing written
BackgroundExcept(t, outcome) ==
    /\ st_tasks[t].pc = "except"
    /\ TaskMoves(t, "ended", FALSE)
    /\ IF outcome = "raises"
       THEN UNCHANGED st_status
       ELSE st_status' = "failed"
    /\ UNCHANGED st_requests
    /\ StUnchanged

StNext ==
    \/ \E outcome \in {"returns", "get_raises", "commit_raises"} : ProcessStatement(outcome)
    \/ \E t \in 1..Len(st_tasks), outcome \in {"returns", "raises"} : BackgroundGet(t, outcome)
    \/ \E t \in 1..Len(st_tasks), outcome \in {"transactions", "empty", "raises"} :
           BackgroundParse(t, outcome)
    \/ \E t \in 1..Len(st_tasks), outcome \in {"returns", "raises"} :
           BackgroundCategorize(t, outcome)
    \/ \E t \in 1..Len(st_tasks), outcome \in {"returns", "raises"} : BackgroundCommit(t, outcome)
    \/ \E t \in 1..Len(st_tasks), outcome \in {"returns", "raises"} : BackgroundExcept(t, outcome)

SpecStatement == StInit /\ [][StNext]_vars

(***************************************************************************)
(* Properties of the categorizer, the parser and the model client          *)
(***************************************************************************)
\* the transactions of the dict parse_statement returned (none if it returned
\* no data)
ReturnedTransactions ==
    IF ps_result.kind = "returned" /\ ps_result.data # <<>>
    THEN ps_result.data[1].transactions ELSE <<>>

\* no rule of the three tables matches the description
Unmatched(description) ==
    CategorizeMexicanTransaction(description) \in {None, <<>>}

\* C1: every transaction in the data parse_statement returns has a category
\* that is neither None nor empty, whatever the text, the state of the model
\* and its reply; a transaction no rule matches and the model gives no
\* category keeps "otros".
C1_CategoryNeverEmpty ==
    \A i \in 1..Len(ReturnedTransactions) :
        LET t == ReturnedTransactions[i]
        IN  /\ t.category # None
            /\ t.category # <<>>
            /\ Unmatched(t.description) /\ t.description \notin DOMAIN ps_llm_results
                 => t.category = Otros

\* C1 witness: the model answered with a JSON object that names one
\* description, and another transaction no rule matches kept "otros"
C1_Witness ==
    /\ ps_pc = "done"
    /\ inv_outcome = "returned"
    /\ inv_content.kind = "object"
    /\ DOMAIN ps_llm_results # {}
    /\ \E i \in 1..Len(ReturnedTransactions) :
          /\ Unmatched(ReturnedTransactions[i].description)
          /\ ReturnedTransactions[i].description \notin DOMAIN ps_llm_results
          /\ ReturnedTransactions[i].category = Otros

\* C3: categorize_mexican_transaction returns the category of the first
\* matching entry of the first tier that matches, the tiers taken in the
\* order exact, pattern, contains: an exact match wins even when a pattern or
\* a keyword also matches, and the keyword tier decides only when neither an
\* exact nor a pattern entry matches.
C3_TierOrder ==
    cz_done /\ Strip(cz_desc) # <<>> =>
        LET u == Upper(cz_desc)
            exact == { i \in 1..Len(ExactMatchRules) :
                         IsSubstr(ExactMatchRules[i].key, u) }
            pattern == { i \in 1..Len(PatternMatchRules) :
                           PatternSearch(PatternMatchRules[i], u) }
            contains == { i \in 1..Len(ContainsMatchRules) :
                            IsSubstr(ContainsMatchRules[i].key, u) }
            First(S) == CHOOSE i \in S : \A j \in S : i <= j
        IN  IF exact # {} THEN cz_cat = ExactMatchRules[First(exact)].category
            ELSE IF pattern # {} THEN cz_cat = PatternMatchRules[First(pattern)].category
            ELSE IF contains # {} THEN cz_cat = ContainsMatchRules[First(contains)].category
            ELSE cz_cat = None

\* C3 witness: a description in which a merchant of the exact table and an
\* expression of the pattern table both match, with different categories,
\* and the merchant's category was returned
C3_Witness ==
    /\ cz_done
    /\ IsSubstr(ExactMatchRules[1].key, Upper(cz_desc))
    /\ PatternSearch(PatternMatchRules[2], Upper(cz_desc))
    /\ IsSubstr(ContainsMatchRules[1].key, Upper(cz_desc))
    /\ cz_cat = ExactMatchRules[1].category
    /\ cz_cat # PatternMatchRules[2].category

\* C6: when the reply of the model is not valid JSON (no brace-delimited
\* block, or a block that does not parse) the whole batch is discarded: the
\* batch call returns {}, every transaction whose description was batched
\* keeps "otros", and parse_statement returns its dict.
C6_InvalidReplyDiscarded ==
    /\ ps_pc = "done"
    /\ inv_caller = "batch"
    /\ inv_outcome = "returned"
    /\ inv_content.kind \in {"text", "badjson"}
    => /\ ps_llm_results = EmptyMap
       /\ ps_result.kind = "returned"
       /\ ps_result.data # <<>>
       /\ \A i \in 1..Len(ReturnedTransactions) :
             ReturnedTransactions[i].description \in ps_batched
                => ReturnedTransactions[i].category = Otros

\* C6 witness: the reply held a block json.loads rejects that names a batched
\* description with a valid category, and the transaction kept "otros"
C6_Witness ==
    /\ ps_pc = "done"
    /\ inv_caller = "batch"
    /\ inv_content.kind = "badjson"
    /\ \E i \in 1..Len(ReturnedTransactions) :
          LET d == ReturnedTransactions[i].description
          IN  /\ d \in ps_batched
              /\ d \in DOMAIN inv_content.obj
              /\ inv_content.obj[d].str
              /\ Strip(Lower(inv_content.obj[d].s)) = Salud
              /\ ReturnedTransactions[i].category = Otros

\* C7: when every attempt of the model call fails, parse_statement raises
\* nothing and returns what it returns when the model is unavailable: the
\* same success flag, confidence, data and validation, unmatched
\* transactions categorized "otros".
C7_FailedCallLikeUnavailable ==
    /\ ps_pc = "done"
    /\ inv_caller = "batch"
    /\ inv_outcome = "raised"
    => /\ ps_result.kind = "returned"
       /\ ps_result = CompleteParse(ps_text, EmptyMap)
       /\ \A i \in 1..Len(ReturnedTransactions) :
             Unmatched(ReturnedTransactions[i].description)
                => ReturnedTransactions[i].category = Otros

\* C7 witness: all three attempts of the batch call failed and the dict
\* returned holds a transaction no rule matches
C7_Witness ==
    /\ ps_pc = "done"
    /\ inv_caller = "batch"
    /\ inv_outcome = "raised"
    /\ inv_calls = DefaultMaxRetries
    /\ ps_result.kind = "returned"
    /\ \E i \in 1..Len(ReturnedTransactions) :
          Unmatched(ReturnedTransactions[i].description)

\* what holds of LLMClient.invoke in every state
InvokeBounded ==
    /\ inv_calls <= inv_max
    /\ inv_outcome = "returned" => inv_calls = inv_attempt + 1 /\ ps_pc = "done"
    /\ inv_outcome = "raised" /\ llm_available
          => inv_calls = inv_max /\ inv_attempt = inv_max /\ ps_pc = "done"
    /\ inv_outcome = "raised" /\ ~llm_available => inv_calls = 0 /\ ps_pc = "done"
    /\ ps_pc = "invoking" => llm_available /\ inv_attempt < inv_max
    /\ ps_pc = "done" /\ inv_caller # "none" => inv_outcome # "none"

\* every step taken inside LLMClient.invoke is one call of the model, and it
\* either ends the invocation or uses up one of the attempts
InvokeProgress ==
    ps_pc = "invoking" =>
        /\ inv_calls' = inv_calls + 1
        /\ \/ ps_pc' = "done" /\ inv_outcome' \in {"returned", "raised"}
           \/ ps_pc' = "invoking" /\ inv_attempt' = inv_attempt + 1

\* C8: LLMClient.invoke always comes to an end, after at most max_retries
\* calls of the model (each call ends the invocation or uses up an attempt,
\* and fewer than max_retries attempts are used up while it runs): it returns
\* after the first call that succeeds without calling again, raises
\* RuntimeError after max_retries failures in a row, and raises it without
\* any call when the model is unavailable.
C8_InvokeTerminates == []InvokeBounded /\ [][InvokeProgress]_vars

\* C8 witness: a direct call returned at its third attempt, after two failures
C8_Witness ==
    /\ inv_caller = "direct"
    /\ inv_max = DefaultMaxRetries
    /\ inv_outcome = "returned"
    /\ inv_attempt = 2
    /\ inv_calls = 3
    /\ inv_waits = <<2, 4>>

\* C9: parse_statement and CondusefParser.parse return a result object for
\* every input, and no exception leaves them.  (Refuted for parse_statement:
\* _validate_mexican_format runs before the try block.)
C9_NoExceptionPropagates ==
    /\ ps_result.kind # "raised"
    /\ cp_result.kind # "raised"

(***************************************************************************)
(* Properties of the table extractor and of the PDF parser                 *)
(***************************************************************************)
\* C4: extract_tables_from_pdf calls the strategies in the fixed order
\* pdfplumber, Camelot lattice, Camelot stream, Tabula, enhanced OCR, and
\* once a strategy has returned a success with confidence above 0.7 it calls
\* none after it: that result is the last of the list returned.
C4_FixedOrderEarlyStop ==
    /\ \A i, j \in 1..Len(te_attempted) :
          i < j => BackendIndex(te_attempted[i]) < BackendIndex(te_attempted[j])
    /\ \A k \in 1..Len(te_results) :
          te_results[k].success
          /\ 10 * te_results[k].confidence[1] > 7 * te_results[k].confidence[2]
          => /\ k = Len(te_results)
             /\ te_attempted[Len(te_attempted)] = te_results[k].method
             /\ te_pc = "done"

\* C4 witness: pdfplumber found no table, Camelot lattice returned tables
\* with confidence above 0.7, and the call returned with that result last
C4_Witness ==
    /\ te_pc = "done"
    /\ te_attempted = <<"pdfplumber", "camelot_lattice">>
    /\ Len(te_results) = 2
    /\ ~te_results[1].success
    /\ te_results[2].method = "camelot_lattice"
    /\ te_results[2].success
    /\ 10 * te_results[2].confidence[1] > 7 * te_results[2].confidence[2]

\* C5: the enhanced-OCR strategy is run only when none of the structural
\* strategies (pdfplumber, Camelot lattice, Camelot stream, Tabula) returned
\* a success, that is usable tables.  (Refuted: Tabula's 0.7 and a Camelot
\* accuracy of 70 or less are not above 0.7, and OCR runs after them.)
C5_OcrOnlyWithoutUsableTables ==
    (\E i \in 1..Len(te_attempted) : te_attempted[i] = "enhanced_ocr")
    => \A k \in 1..Len(te_results) :
          te_results[k].method # "enhanced_ocr" => ~te_results[k].success

\* C2: in every transaction extract_transactions and
\* _extract_standardized_transactions emit, the type is the charge type
\* (DEBIT, debit) exactly when the amount is below zero.  (Refuted for the
\* BBVA patterns, which fix the type before the amount is parsed.)
C2_DebitIffNegative ==
    /\ \A i \in 1..Len(ReturnedTransactions) :
          ReturnedTransactions[i].transaction_type = "DEBIT"
             <=> ReturnedTransactions[i].amount < 0
    /\ \A i \in 1..Len(pdf_result.transactions) :
          pdf_result.transactions[i].type = "debit"
             <=> pdf_result.transactions[i].amount < 0

\* C10: for a PDF that cannot be read or has no pages, parse_pdf returns a
\* failure result (confidence 0.0, method text_extraction_failed) and raises
\* nothing, whichever fallback parser it reaches.  (Refuted: what
\* pdfplumber.open raises is raised again, the generic fallback calls
\* methods that do not exist, and the bank-specific fallback reports 0.9.)
C10_UnreadableGivesFailure ==
    pdf_pc = "done" /\ (~pdf_doc.readable \/ pdf_doc.n_pages = 0)
    => /\ pdf_result.kind = "returned"
       /\ pdf_result.parsing_confidence = 0
       /\ pdf_result.parsing_method = "text_extraction_failed"

(***************************************************************************)
(* Properties of one parser instance over a session                        *)
(***************************************************************************)
\* conf is the arithmetic mean of the ratios p, b and t
IsMeanOf(conf, p, b, t) ==
    conf[1] * 3 * p[2] * b[2] * t[2]
        = conf[2] * (p[1] * b[2] * t[2] + b[1] * p[2] * t[2] + t[1] * p[2] * b[2])

\* C11: on one parser instance, over any sequence of parse_statement and
\* _categorize_with_llm calls, llm_client.invoke is called at most once about
\* any normalized description (trimmed, upper-cased).  (Refuted: the batch
\* call of parse_statement neither reads nor fills llm_cache and
\* llm_processed, so every parse_statement asks again.)
C11_ModelInvokedOncePerDescription ==
    \A k \in SessionKeys : ss_invocations[k] <= 1

\* C12: under any interleaving of _categorize_with_llm calls on one instance,
\* an entry of llm_cache, once written, is never replaced by another
\* category.  (Refuted: two calls that both missed the cache both ask the
\* model and both write what they got.)
C12_CacheEntryNeverOverwritten ==
    [][\A k \in DOMAIN ss_llm_cache :
          k \in DOMAIN ss_llm_cache' /\ ss_llm_cache'[k] = ss_llm_cache[k]]_vars

\* C14: two parse_statement calls on the same text, the model unavailable or
\* a stub that answers the same prompt the same way, return equal results
\* (metadata, transactions with their categories, success, confidence), and
\* the confidence of each call is the mean of the sub-confidences of the data
\* that call extracted.
C14_ReparseGivesEqualResult ==
    /\ \A i, j \in 1..Len(ss_parses) :
          (ss_stubbed \/ ~llm_available) /\ ss_parses[i].text = ss_parses[j].text
          => ss_parses[i].result = ss_parses[j].result
    /\ \A i \in 1..Len(ss_parses) :
          ss_parses[i].result.data # <<>>
          => IsMeanOf(ss_parses[i].result.confidence,
                      ss_parses[i].result.data[1].payment_info.confidence,
                      ss_parses[i].result.data[1].balance_info.confidence,
                      ss_parses[i].result.data[1].transactions_confidence)

\* C14 witness: the same statement parsed twice with a stub answering, the
\* description no rule matches categorized by the stub both times
C14_Witness ==
    /\ Len(ss_parses) = 2
    /\ ss_stubbed /\ llm_available
    /\ ss_parses[1].text = ss_parses[2].text
    /\ ss_invocations[CacheKey(DescUnknown)] = 2
    /\ ss_parses[2].result.success
    /\ Len(ss_parses[2].result.data[1].transactions) = 1
    /\ ss_parses[2].result.data[1].transactions[1].description = DescUnknown
    /\ ss_parses[2].result.data[1].transactions[1].category = Salud

\* C13: what parse_pdf returns for a document is what a parser that has
\* processed nothing else returns for it, whatever the shared parser
\* processed before or is processing in another call: self.statement_period,
\* the one attribute read while transactions are built, is never written.
C13_DocumentsIndependent ==
    /\ pdf_statement_period = Nothing
    /\ \A slot \in PdfSlots :
          pdf_calls[slot].pc = "done"
          => pdf_calls[slot].result = ParsePdfResult(pdf_calls[slot].doc)

\* C13 witness: a BBVA statement processed in December while a statement of
\* another layout, with a January date and no period found, went through
\* the same parser; the BBVA transaction is dated in December
C13_Witness ==
    /\ pdf_calls["first"].pc = "done"
    /\ pdf_calls["second"].pc = "done"
    /\ pdf_calls["first"].doc.bank_type = "none"
    /\ pdf_calls["first"].doc.found = {}
    /\ Len(pdf_calls["first"].doc.lines) > 0
    /\ pdf_calls["first"].doc.lines[1].kind = "dated"
    /\ pdf_calls["second"].doc.bank_type = "bbva"
    /\ pdf_calls["second"].doc.now_month = 12
    /\ pdf_calls["second"].result.kind = "returned"
    /\ Len(pdf_calls["second"].result.transactions) > 0
    /\ pdf_calls["second"].result.transactions[1].date[2] = 12

(***************************************************************************)
(* Properties of the sub-scores and of validate_extraction                 *)
(***************************************************************************)
\* parse_statement has returned a dict that carries extracted data
HasData == ps_pc = "done" /\ ps_result.kind = "returned" /\ ps_result.data # <<>>

\* how many of the six payment labels the patterns matched in the text
MatchedPaymentFields ==
    Cardinality({ f \in PaymentFieldNames : ps_text.pay[f] # Nothing })

\* how many of the six payment values of the record returned are not None
PresentPaymentFields ==
    Cardinality({ f \in PaymentFieldNames :
                    ps_result.data[1].payment_info[f] # Nothing })

\* C15: the payment confidence is k/6 for k the number of the six payment
\* fields that were found, be it read as the labels matched or as the values
\* obtained (so 1.0 for six, 0.0 for none, 4/6 for four), and lies in [0,1].
C15_PaymentConfidenceIsFoundOverSix ==
    HasData
    => /\ ps_result.data[1].payment_info.confidence[2] = 6
       /\ ps_result.data[1].payment_info.confidence[1] \in 0..6
       /\ ps_result.data[1].payment_info.confidence[1]
             \in {MatchedPaymentFields, PresentPaymentFields}

\* C16: a payment field adds to the confidence exactly when its returned
\* value is not None: six times the confidence is the number of values that
\* are not None.
C16_ConfidenceCountsPresentValues ==
    HasData
    => ps_result.data[1].payment_info.confidence = Ratio(PresentPaymentFields, 6)

\* C18: validate_extraction gives is_valid false whenever the transaction
\* list is empty or longer than 1000, whatever the confidence scores are.
C18_NoTransactionsIsInvalid ==
    HasData
    /\ ( Len(ps_result.data[1].transactions) = 0
         \/ Len(ps_result.data[1].transactions) > 1000 )
    => ~ps_result.validation[1].is_valid

\* C17: the confidence of validate_extraction is the arithmetic mean of the
\* payment, balance and transaction sub-confidences; is_valid is false
\* whenever that mean is below 0.6; parse_statement returns the mean as
\* confidence and is_valid as success.
C17_MeanAndThreshold ==
    HasData
    => /\ IsMeanOf(ps_result.validation[1].confidence,
                   ps_result.data[1].payment_info.confidence,
                   ps_result.data[1].balance_info.confidence,
                   ps_result.data[1].transactions_confidence)
       /\ ( 10 * ps_result.validation[1].confidence[1]
               < 6 * ps_result.validation[1].confidence[2]
            => ~ps_result.validation[1].is_valid )
       /\ ps_result.confidence = ps_result.validation[1].confidence
       /\ ps_result.success = ps_result.validation[1].is_valid

\* C17 witness: a statement with transactions whose three sub-confidences
\* are all above zero and average below 0.6, returned with success false
C17_Witness ==
    /\ HasData
    /\ ~ps_result.success
    /\ ps_result.data[1].payment_info.confidence[1] > 0
    /\ ps_result.data[1].balance_info.confidence[1] > 0
    /\ ps_result.data[1].transactions_confidence[1] > 0
    /\ 10 * ps_result.confidence[1] < 6 * ps_result.confidence[2]
    /\ 2 * ps_result.confidence[1] >= ps_result.confidence[2]

\* C19: whatever validation says, the dict parse_statement returns for a
\* recognised text holds every section as it was extracted and every
\* extracted transaction, in order, with nothing but its category changed.
C19_InvalidKeepsExtractedData ==
    /\ ps_pc = "done"
    /\ ps_result.kind = "returned"
    /\ ps_text.str
    /\ ValidateMexicanFormat(ps_text)
    /\ ps_fault = "none"
    => /\ ps_result.data # <<>>
       /\ ps_result.data[1].customer_info = ps_text.customer
       /\ ps_result.data[1].payment_info = ExtractPaymentInfo(ps_text)
       /\ ps_result.data[1].balance_info = ExtractBalanceInfo(ps_text)
       /\ ps_result.data[1].transactions_confidence = ExtractTransactions(ps_text)[2]
       /\ Len(ps_result.data[1].transactions) = Len(ExtractTransactions(ps_text)[1])
       /\ \A i \in 1..Len(ps_result.data[1].transactions) :
             [ ps_result.data[1].transactions[i] EXCEPT !.category = None ]
                = [ ExtractTransactions(ps_text)[1][i] EXCEPT !.category = None ]

\* C19 witness: a result marked invalid that carries a payment date, a
\* balance amount and a transaction
C19_Witness ==
    /\ HasData
    /\ ~ps_result.success
    /\ ~ps_result.validation[1].is_valid
    /\ ps_result.data[1].payment_info.period_start # Nothing
    /\ ps_result.data[1].balance_info.total_balance # Nothing
    /\ Len(ps_result.data[1].transactions) > 0

\* C20: for a text the classifier does not recognise, parse_statement returns
\* success false and confidence 0.0, extracts nothing, categorizes nothing
\* and calls the model not once.
C20_UnrecognisedTextUntouched ==
    /\ ps_pc = "done"
    /\ ps_result.kind # "none"
    /\ ps_text.str
    /\ ~ValidateMexicanFormat(ps_text)
    => /\ ps_result.kind = "returned"
       /\ ~ps_result.success
       /\ ps_result.confidence[1] = 0
       /\ ps_result.data = <<>>
       /\ ps_result.validation = <<>>
       /\ ps_batched = {}
       /\ inv_caller = "none"
       /\ inv_calls = 0

\* C20 witness: parse_statement has returned for a text in which no label,
\* no bank, no date and no amount is found, with the model available
C20_Witness ==
    /\ ps_pc = "done"
    /\ ps_result.kind = "returned"
    /\ ps_text = BlankText
    /\ llm_available
    /\ ps_result.error # ""

(***************************************************************************)
(* Properties of the batch call, the backoff and the result chosen         *)
(***************************************************************************)
\* C21: parse_statement makes the batch call only for a statement with a
\* description no rule matches, and no two descriptions of one batch have
\* the same normalized form (trimmed, in capitals).
C21_BatchDeduplicatedByNormalizedForm ==
    /\ inv_caller = "batch" => ps_batched # {}
    /\ \A d \in ps_batched : \A e \in ps_batched :
          Upper(Strip(d)) = Upper(Strip(e)) => d = e

\* C26: the waits between successive failed attempts of LLMClient.invoke
\* grow exponentially: each wait is at least twice the wait before it.
C26_WaitsAtLeastDouble ==
    \A i \in 2..Len(inv_waits) : inv_waits[i] >= 2 * inv_waits[i - 1]

\* C22: for a reply that is a JSON object, the batch call gives each
\* description with a string value the value trimmed and in lower case if
\* that is one of the categories the prompt lists, and "otros" if not; every
\* category it returns is one of those categories.
C22_BatchValuesValidated ==
    /\ ps_pc = "done"
    /\ inv_caller = "batch"
    /\ inv_outcome = "returned"
    /\ inv_content.kind = "object"
    => /\ \A d \in DOMAIN inv_content.obj :
             inv_content.obj[d].str
             => /\ d \in DOMAIN ps_llm_results
                /\ ps_llm_results[d] =
                     IF Lower(Strip(inv_content.obj[d].s)) \in ValidCategories
                     THEN Lower(Strip(inv_content.obj[d].s)) ELSE Otros
       /\ \A d \in DOMAIN ps_llm_results :
             /\ d \in DOMAIN inv_content.obj
             /\ ps_llm_results[d] \in ValidCategories

\* C22 witness: the reply gave a description a rule matches a category that
\* is not in the list, and the transaction came back with "otros"
C22_Witness ==
    /\ ps_pc = "done"
    /\ inv_caller = "batch"
    /\ inv_content.kind = "object"
    /\ \E i \in 1..Len(ReturnedTransactions) :
          LET d == ReturnedTransactions[i].description
          IN  /\ ~Unmatched(d)
              /\ d \in DOMAIN inv_content.obj
              /\ inv_content.obj[d].str
              /\ Lower(Strip(inv_content.obj[d].s)) \notin ValidCategories
              /\ ReturnedTransactions[i].category = Otros

\* C23: while the client is not available the model is never invoked:
\* parse_statement and _categorize_with_llm return without a model call, a
\* transaction no rule matches is returned with "otros", and
\* _categorize_with_llm returns "otros".
C23_UnavailableNeverInvokes ==
    ~llm_available
    => /\ \A k \in SessionKeys : ss_invocations[k] = 0
       /\ ss_llm_cache = << >>
       /\ th["a"].pc \in {"idle", "done"}
       /\ th["a"].pc = "done" => th["a"].category = Otros
       /\ \A i \in 1..Len(ss_parses) :
             /\ ss_parses[i].result.kind = "returned"
             /\ ss_parses[i].result.data # <<>>
             /\ \A j \in 1..Len(ss_parses[i].result.data[1].transactions) :
                   Unmatched(ss_parses[i].result.data[1].transactions[j].description)
                   => ss_parses[i].result.data[1].transactions[j].category = Otros

\* C23 witness: with the client not available, a statement with a
\* description no rule matches has been parsed and _categorize_with_llm has
\* returned for a description
C23_Witness ==
    /\ ~llm_available
    /\ th["a"].pc = "done"
    /\ th["a"].description = DescUnknown
    /\ th["a"].category = Otros
    /\ Len(ss_parses) > 0
    /\ Len(ss_parses[1].result.data[1].transactions) = 1
    /\ ss_parses[1].result.data[1].transactions[1].description = DescUnknown
    /\ ss_parses[1].result.data[1].transactions[1].category = Otros

\* the keys whose model call failed: in llm_processed and not in llm_cache
FailedKeys == ss_llm_processed \ DOMAIN ss_llm_cache

\* C30: with calls of _categorize_with_llm one after the other, once a call
\* has returned every key of llm_cache is in llm_processed; the key of a call
\* whose model call raised is in llm_processed and not in llm_cache; and such
\* a key stays so, a later call for it returning "otros" with no further
\* invocation of the model.
C30_ProcessedCoversCache ==
    [][ /\ th["a"].pc' \in {"idle", "done"}
           => DOMAIN ss_llm_cache' \subseteq ss_llm_processed'
        /\ th["a"].pc = "invoke" /\ th["a"].pc' = "done"
           => CacheKey(th["a"].description) \in FailedKeys'
        /\ \A k \in FailedKeys :
              /\ k \in FailedKeys'
              /\ ss_parses' = ss_parses => ss_invocations'[k] = ss_invocations[k]
              /\ th["a"].pc' = "done" /\ CacheKey(th["a"].description') = k
                 => th["a"].category' = Otros
      ]_vars

\* C30 witness: a call is under way for a description whose earlier model
\* call raised, while another key is in llm_cache and in llm_processed
C30_Witness ==
    /\ th["a"].pc = "processed"
    /\ CacheKey(th["a"].description) \in FailedKeys
    /\ ss_invocations[CacheKey(th["a"].description)] = 1
    /\ \E k \in DOMAIN ss_llm_cache : k \in ss_llm_processed

\* C24: a result of the enhanced-OCR backend has confidence at most 0.5: it
\* is never a success above the 0.7 bar, and it is not the best result of
\* the page when a structural backend gave a result of confidence above 0.5.
C24_OcrConfidenceCapped ==
    \A i \in 1..Len(te_results) :
        te_results[i].method = "enhanced_ocr"
        => /\ 2 * te_results[i].confidence[1] <= te_results[i].confidence[2]
           /\ ~( te_results[i].success
                 /\ 10 * te_results[i].confidence[1] > 7 * te_results[i].confidence[2] )
           /\ ( \E j \in 1..Len(te_results) :
                   /\ te_results[j].method # "enhanced_ocr"
                   /\ 2 * te_results[j].confidence[1] > te_results[j].confidence[2] )
              => BestResult(te_results) # i

\* C24 witness: text recognition found tables on a page for which a
\* structural backend had given a result of confidence above 0.5, and the
\* best result of the page is the structural one
C24_Witness ==
    /\ te_pc = "done"
    /\ \E i \in 1..Len(te_results) :
          /\ te_results[i].method = "enhanced_ocr"
          /\ te_results[i].success
          /\ te_results[i].confidence = Ratio(5, 10)
    /\ BestResult(te_results) > 0
    /\ te_results[BestResult(te_results)].method # "enhanced_ocr"
    /\ 2 * te_results[BestResult(te_results)].confidence[1]
          > te_results[BestResult(te_results)].confidence[2]

\* what _parse_universal_statement gave for the document of the call
UniversalResult ==
    ParseUniversalStatement(pdf_doc, ExtractStandardizedTransactions(pdf_doc))

C25_HeaderThenLineGivesOneCharge ==
    ( /\ ct_call = "details"
      /\ ct_input.lines = << RegularHeaderLine, FullDateLine >> )
    => ct_details.regular_transactions =
         << [ operation_date |-> << StatementYear, 1, 15 >>,
              description    |-> OxxoMonterrey,
              amount         |-> << 0 - 5580 >>,
              type           |-> "charge" ] >>


\* the tasks that have not ended
LiveTasks == { t \in 1..Len(st_tasks) : st_tasks[t].pc # "ended" }

C28_TaskEndsProcessedOrFailed ==
    [][ \A t \in 1..Len(st_tasks) :
          st_tasks[t].pc # "ended" /\ st_tasks'[t].pc = "ended"
          => /\ st_status' \in {"processed", "failed"}
             /\ st_status' = "processed" => ~st_tasks'[t].raised ]_vars

====
